---- MODULE Spec2Model ----
(***************************************************************************)
(* The variable/job broker of poly-lithic's FastAPI interface              *)
(* (SimpleFastAPIInterfaceServer): the typed variable store, the job       *)
(* ledger, the pending and completed queues, and the operations on them.   *)
(* Every operation runs under the interface's re-entrant lock, so each is  *)
(* one atomic step.                                                        *)
(***************************************************************************)
EXTENDS Integers, Sequences, FiniteSets, TLC

(***************************************************************************)
(* Bounds of the model.                                                    *)
(***************************************************************************)
\* Jobs the ledger may hold (the ledger never forgets a job).
MaxJobs == 3
\* Jobs in one submitted batch.
MaxBatch == 2
\* Largest magnitude of a value written to the PV.
MaxValue == 6
\* Readings the wall clock can take (time.time() is sampled, not stepped).
MaxClock == 3
\* The configured capacities (config keys input_queue_max, output_queue_max).
InputQueueMax == 2
OutputQueueMax == 2

(***************************************************************************)
(* Python values.  A value is a record [t, v]: t is the Python type and v  *)
(* the payload as a sequence of integers (a number is a one-element        *)
(* sequence, a string carries no payload, a 2-D block is <<rows, cols>>    *)
(* followed by its elements).                                              *)
(***************************************************************************)
IntV(n) == [t |-> "int", v |-> <<n>>]
FloatV(n) == [t |-> "float", v |-> <<n>>]
BoolV(n) == [t |-> "bool", v |-> <<n>>]
StrV == [t |-> "str", v |-> <<>>]
\* a Python int beyond the range of a float (above sys.float_info.max)
HugeIntV == [t |-> "int", v |-> <<>>]
ListV(s) == [t |-> "list", v |-> s]
StrListV(s) == [t |-> "strlist", v |-> s]
List2V(rows, cols, s) == [t |-> "list2", v |-> <<rows, cols>> \o s]
NdArray(s) == [t |-> "ndarray", v |-> s]
NdArray2(rows, cols, s) == [t |-> "ndarray2", v |-> <<rows, cols>> \o s]

\* numpy.asarray(value).ndim
NdimOf(value) ==
    CASE value.t \in {"int", "float", "bool", "str"} -> 0
      [] value.t \in {"list", "strlist", "ndarray"} -> 1
      [] OTHER -> 2

\* dtype of numpy.asarray(value) is numeric or bool
NumericDtype(value) == value.t \notin {"str", "strlist"} /\ value # HugeIntV

(***************************************************************************)
(* The configured variables (config key 'variables'), as _init_variables   *)
(* leaves them: A is an input scalar, B an in/out array of length 2, X an  *)
(* output scalar, I an input image of image_size x = 2, y = 1.  "Z" is a   *)
(* name that is not declared.                                              *)
(***************************************************************************)
VarNames == {"A", "B", "X", "I"}
AllNames == VarNames \cup {"Z"}

VarMeta ==
    [n \in VarNames |->
        CASE n = "A" -> [mode |-> "in", type |-> "scalar", length |-> 0, x |-> 0, y |-> 0]
          [] n = "B" -> [mode |-> "inout", type |-> "array", length |-> 2, x |-> 0, y |-> 0]
          [] n = "X" -> [mode |-> "out", type |-> "scalar", length |-> 0, x |-> 0, y |-> 0]
          [] n = "I" -> [mode |-> "in", type |-> "image", length |-> 0, x |-> 2, y |-> 1]]

InitStore ==
    [n \in VarNames |->
        CASE n = "A" -> FloatV(1)
          [] n = "B" -> NdArray(<<5, 6>>)
          [] n = "X" -> FloatV(0)
          [] n = "I" -> NdArray2(1, 2, <<0, 0>>)]

\* OutList were the variables of mode inout left out of it
OutListOutOnly == <<"X">>

\* _in_list and _out_list, in declaration order
InList == <<"A", "B", "I">>
OutList == <<"B", "X">>

(***************************************************************************)
(* _coerce_for_type: [ok, exc, value]; value is the coerced value when ok. *)
(***************************************************************************)
CoerceOk(value) == [ok |-> TRUE, exc |-> "", value |-> value]
CoerceErr(exc, value) == [ok |-> FALSE, exc |-> exc, value |-> value]

CoerceForType(name, value) ==
    LET meta == VarMeta[name]
        \* numpy.asarray(value): lists become arrays, arrays stay as they are
        arr == CASE value.t = "list" -> NdArray(value.v)
                 [] value.t = "list2" -> [t |-> "ndarray2", v |-> value.v]
                 [] OTHER -> value
    IN  CASE meta.type = "scalar" ->
               IF value.t \notin {"int", "float", "bool"}
               THEN CoerceErr("TypeError", value)
               ELSE IF value.t = "bool" THEN CoerceOk(value)
               ELSE IF value = HugeIntV THEN CoerceErr("OverflowError", value)
               ELSE CoerceOk(FloatV(value.v[1]))
          [] meta.type \in {"waveform", "array"} ->
               IF NdimOf(value) # 1 THEN CoerceErr("ValueError", value)
               ELSE IF ~NumericDtype(value) THEN CoerceErr("TypeError", value)
               ELSE IF Len(arr.v) # meta.length THEN CoerceErr("ValueError", value)
               ELSE CoerceOk(arr)
          [] meta.type = "image" ->
               IF NdimOf(value) # 2 THEN CoerceErr("ValueError", value)
               ELSE IF ~NumericDtype(value) THEN CoerceErr("TypeError", value)
               ELSE IF <<arr.v[1], arr.v[2]>> # <<meta.y, meta.x>>
                    THEN CoerceErr("ValueError", value)
               ELSE CoerceOk(arr)
          [] OTHER -> CoerceErr("TypeError", value)

(***************************************************************************)
(* Job identifiers.  A caller gives an id or none; uuid.uuid4() is         *)
(* modelled as the next identifier of a family no caller uses.             *)
(***************************************************************************)
NoId == <<"none", 0>>
ClientId(k) == <<"c", k>>
Uuid(k) == <<"u", k>>

\* None for a timestamp; time.time() is always positive
NoTime == 0
\* None / the eviction reason, for a job's error field
NoError == "None"
EvictedError == "Evicted: output queue overflow"

\* metadata of a VariableStruct: None, {} or a dict with an entry
MetaNone == "None"
MetaEmpty == "{}"
MetaTag == "{k: m}"

VARIABLES
    var_store,   \* _var_store: name -> current value
    jobs,        \* _jobs: the ledger, a dict in insertion order (a sequence of records)
    queued,      \* _queued: deque of pending job ids
    completed,   \* _completed: deque of completed job ids
    clock,       \* what time.time() returns now
    monitor_callback,  \* _monitor_callback: None or the registered handler
    threads,     \* _lock and the callers' threads: owner, positions, locals
    pv,          \* the PVA server's scalar PV: its alarm policy and what was posted
    settings,    \* a PV's configuration and what normalise_variable_settings made of it
    client,      \* the PVA client: a variable's settings, its last put, what was sent
    registry,    \* a PluginRegistry: _plugins, _loaded, and what was registered by hand
    last         \* the last call made and what it returned

vars == <<var_store, jobs, queued, completed, clock, pv, settings, client, registry,
          monitor_callback, threads, last>>

(***************************************************************************)
(* The ledger as a dict: lookup by id, membership, keys in order.          *)
(***************************************************************************)
JobIds(js) == {js[i].job_id : i \in 1..Len(js)}
JobIdx(js, jid) == CHOOSE i \in 1..Len(js) : js[i].job_id = jid
JobOf(js, jid) == js[JobIdx(js, jid)]
SeqToSet(s) == {s[i] : i \in 1..Len(s)}

(***************************************************************************)
(* Requests.  A job's variables are a dict in insertion order: a sequence  *)
(* of entries [name, value, timestamp, metadata] with distinct names.  A   *)
(* timestamp of NoTime is None (or 0.0, which Python's `or` treats alike). *)
(***************************************************************************)
Entry(name, value, timestamp, metadata) ==
    [name |-> name, value |-> value, timestamp |-> timestamp, metadata |-> metadata]

\* variables that pass validation
GoodVariables ==
    { <<Entry("A", IntV(2), NoTime, MetaNone)>>,
      <<Entry("A", FloatV(3), 9, MetaTag), Entry("B", ListV(<<7, 8>>), NoTime, MetaEmpty)>> }

\* The jobs a caller may submit: good variables with or without an id, and
\* variables that fail validation: an undeclared name after a good entry,
\* an output variable, a string for a scalar, an array of the wrong length
Batches ==
    LET JobInputs ==
            [job_id : {NoId, ClientId(1)}, variables : GoodVariables]
                \cup [job_id : {NoId},
                      variables :
                          { <<Entry("A", IntV(2), NoTime, MetaNone),
                              Entry("Z", IntV(2), NoTime, MetaNone)>>,
                            <<Entry("X", IntV(2), NoTime, MetaNone)>>,
                            <<Entry("A", StrV, NoTime, MetaNone)>>,
                            <<Entry("B", ListV(<<7>>), NoTime, MetaNone)>> }]
    IN  UNION {[1..k -> JobInputs] : k \in 0..MaxBatch}

(***************************************************************************)
(* _enqueue_jobs, phase 1: pre-validate everything.                        *)
(***************************************************************************)
\* uuid.uuid4(): an id that no job known or seen so far carries
FreshUuid(js, seen) ==
    Uuid(1 + Cardinality({id \in JobIds(js) \cup seen : id[1] = "u"}))

\* The inner loop over ji.variables: the status of the first entry that
\* fails (404 unknown, 403 mode out, 422 coercion, 500 for an exception the
\* loop does not catch), or 200.
RECURSIVE ValidateVariables(_, _)
ValidateVariables(variables, k) ==
    IF k > Len(variables) THEN 200
    ELSE LET e == variables[k]
         IN  IF e.name \notin VarNames THEN 404
             ELSE IF VarMeta[e.name].mode = "out" THEN 403
             ELSE IF ~CoerceForType(e.name, e.value).ok
             THEN IF CoerceForType(e.name, e.value).exc \in {"TypeError", "ValueError"}
                  THEN 422 ELSE 500
             ELSE ValidateVariables(variables, k + 1)

\* PreValidate were it to compare a job id with the ledger only, not with
\* the ids seen earlier in the batch
RECURSIVE PreValidateLedgerOnly(_, _, _, _, _)
PreValidateLedgerOnly(js, batch, i, seen, resolved) ==
    IF i > Len(batch) THEN [status |-> 200, bad |-> 0, resolved |-> resolved]
    ELSE LET ji == batch[i]
             jid == IF ji.job_id = NoId THEN FreshUuid(js, seen) ELSE ji.job_id
             vstatus == ValidateVariables(ji.variables, 1)
         IN  IF jid \in JobIds(js)
             THEN [status |-> 409, bad |-> i, resolved |-> resolved]
             ELSE IF vstatus # 200
             THEN [status |-> vstatus, bad |-> i, resolved |-> resolved]
             ELSE PreValidateLedgerOnly(js, batch, i + 1, seen \cup {jid},
                      Append(resolved, [job_id |-> jid, variables |-> ji.variables]))

\* The outer loop over jobs_input from job i on: [status, bad, resolved],
\* bad being the position of the job that raised (0 if none).
RECURSIVE PreValidate(_, _, _, _, _)
PreValidate(js, batch, i, seen, resolved) ==
    IF i > Len(batch) THEN [status |-> 200, bad |-> 0, resolved |-> resolved]
    ELSE LET ji == batch[i]
             jid == IF ji.job_id = NoId THEN FreshUuid(js, seen) ELSE ji.job_id
             vstatus == ValidateVariables(ji.variables, 1)
         IN  IF jid \in JobIds(js) \/ jid \in seen
             THEN [status |-> 409, bad |-> i, resolved |-> resolved]
             ELSE IF vstatus # 200
             THEN [status |-> vstatus, bad |-> i, resolved |-> resolved]
             ELSE PreValidate(js, batch, i + 1, seen \cup {jid},
                              Append(resolved, [job_id |-> jid, variables |-> ji.variables]))

(***************************************************************************)
(* _enqueue_jobs, phase 3: enqueue.                                        *)
(***************************************************************************)
\* dict(struct.metadata) if struct.metadata else {}
MetadataCopy(metadata) == IF metadata \in {MetaNone, MetaEmpty} THEN MetaEmpty ELSE metadata

\* struct.timestamp or now
TimestampOr(timestamp, now) == IF timestamp = NoTime THEN now ELSE timestamp

\* s with s[key] = val, key added when absent (a dict assignment)
DictSet(d, key, val) == [k \in DOMAIN d \cup {key} |-> IF k = key THEN val ELSE d[k]]
EmptyDict == [k \in {} |-> 0]

\* CommitVariables were it to snapshot the submitted value as it came
RECURSIVE CommitVariablesRaw(_, _, _)
CommitVariablesRaw(acc, variables, now) ==
    IF variables = <<>> THEN acc
    ELSE LET e == Head(variables)
             coerced == CoerceForType(e.name, e.value).value
         IN  CommitVariablesRaw(
                 [var_store |-> [acc.var_store EXCEPT ![e.name] = coerced],
                  snapshot |-> DictSet(acc.snapshot, e.name,
                                       [value |-> e.value,
                                        timestamp |-> TimestampOr(e.timestamp, now),
                                        metadata |-> MetadataCopy(e.metadata)]),
                  updated |-> Append(acc.updated, e.name)],
                 Tail(variables), now)

\* The loop over one job's variables: writes the store,
\* builds the input snapshot and the list of updated names.
RECURSIVE CommitVariables(_, _, _)
CommitVariables(acc, variables, now) ==
    IF variables = <<>> THEN acc
    ELSE LET e == Head(variables)
             coerced == CoerceForType(e.name, e.value).value
         IN  CommitVariables(
                 [var_store |-> [acc.var_store EXCEPT ![e.name] = coerced],
                  snapshot |-> DictSet(acc.snapshot, e.name,
                                       [value |-> coerced,
                                        timestamp |-> TimestampOr(e.timestamp, now),
                                        metadata |-> MetadataCopy(e.metadata)]),
                  updated |-> Append(acc.updated, e.name)],
                 Tail(variables), now)

\* JobRecord were the outputs to start as a copy of the inputs snapshot
JobRecordOutputsFromInputs(jid, now, snapshot) ==
    [job_id |-> jid, status |-> "queued", submitted_at |-> now,
     started_at |-> NoTime, completed_at |-> NoTime, error |-> NoError,
     inputs |-> snapshot, outputs |-> snapshot]

JobRecord(jid, now, snapshot) ==
    [job_id |-> jid, status |-> "queued", submitted_at |-> now,
     started_at |-> NoTime, completed_at |-> NoTime, error |-> NoError,
     inputs |-> snapshot, outputs |-> EmptyDict]

\* Enqueue were it to put each new id at the front of the pending queue
\* (appendleft, not append)
RECURSIVE EnqueueFront(_, _, _)
EnqueueFront(st, resolved, now) ==
    IF resolved = <<>> THEN st
    ELSE LET r == Head(resolved)
             c == CommitVariables([var_store |-> st.var_store, snapshot |-> EmptyDict,
                                   updated |-> <<>>], r.variables, now)
         IN  EnqueueFront([var_store |-> c.var_store,
                           jobs |-> Append(st.jobs, JobRecord(r.job_id, now, c.snapshot)),
                           queued |-> <<r.job_id>> \o st.queued,
                           accepted |-> Append(st.accepted,
                                               [job_id |-> r.job_id, status |-> "queued",
                                                updated |-> c.updated])],
                          Tail(resolved), now)

\* The loop over resolved_jobs: st is [var_store, jobs, queued, accepted].
RECURSIVE Enqueue(_, _, _)
Enqueue(st, resolved, now) ==
    IF resolved = <<>> THEN st
    ELSE LET r == Head(resolved)
             c == CommitVariables([var_store |-> st.var_store, snapshot |-> EmptyDict,
                                   updated |-> <<>>], r.variables, now)
         IN  Enqueue([var_store |-> c.var_store,
                      jobs |-> Append(st.jobs, JobRecord(r.job_id, now, c.snapshot)),
                      queued |-> Append(st.queued, r.job_id),
                      accepted |-> Append(st.accepted,
                                          [job_id |-> r.job_id, status |-> "queued",
                                           updated |-> c.updated])],
                     Tail(resolved), now)

\* _enqueue_jobs were it to enqueue each job as soon as it has validated it:
\* the jobs before an invalid one stay admitted.
EnqueueJobsEager(store, js, q, batch, now) ==
    LET p == PreValidate(js, batch, 1, {}, <<>>)
        st == Enqueue([var_store |-> store, jobs |-> js, queued |-> q,
                       accepted |-> <<>>], p.resolved, now)
    IN  [status |-> IF p.status = 200 /\ Len(q) + Len(p.resolved) > InputQueueMax
                    THEN 429 ELSE p.status,
         bad |-> p.bad, accepted |-> st.accepted,
         var_store |-> st.var_store, jobs |-> st.jobs, queued |-> st.queued]

\* _enqueue_jobs were its capacity check to count every job of the ledger
EnqueueJobsLedgerCapacity(store, js, q, batch, now) ==
    LET p == PreValidate(js, batch, 1, {}, <<>>)
        raised(code) == [status |-> code, bad |-> p.bad, accepted |-> <<>>,
                         var_store |-> store, jobs |-> js, queued |-> q]
    IN  IF p.status # 200 THEN raised(p.status)
        ELSE IF Len(js) + Len(p.resolved) > InputQueueMax THEN raised(429)
        ELSE LET st == Enqueue([var_store |-> store, jobs |-> js, queued |-> q,
                                accepted |-> <<>>], p.resolved, now)
             IN  [status |-> 200, bad |-> 0, accepted |-> st.accepted,
                  var_store |-> st.var_store, jobs |-> st.jobs, queued |-> st.queued]

\* _enqueue_jobs were its capacity check to look at the pending queue alone
EnqueueJobsQueueOnly(store, js, q, batch, now) ==
    LET p == PreValidate(js, batch, 1, {}, <<>>)
        raised(code) == [status |-> code, bad |-> p.bad, accepted |-> <<>>,
                         var_store |-> store, jobs |-> js, queued |-> q]
    IN  IF p.status # 200 THEN raised(p.status)
        ELSE IF Len(q) >= InputQueueMax THEN raised(429)
        ELSE LET st == Enqueue([var_store |-> store, jobs |-> js, queued |-> q,
                                accepted |-> <<>>], p.resolved, now)
             IN  [status |-> 200, bad |-> 0, accepted |-> st.accepted,
                  var_store |-> st.var_store, jobs |-> st.jobs, queued |-> st.queued]

(***************************************************************************)
(* _enqueue_jobs as a whole, from the state (store, js, q) at time now:    *)
(* [status, bad, accepted, var_store, jobs, queued].  status is 200 when   *)
(* the call returns and the HTTPException's status code when it raises.    *)
(***************************************************************************)
EnqueueJobsOut(store, js, q, batch, now) ==
    LET p == PreValidate(js, batch, 1, {}, <<>>)
        raised(code) == [status |-> code, bad |-> p.bad, accepted |-> <<>>,
                         var_store |-> store, jobs |-> js, queued |-> q]
    IN  IF p.status # 200 THEN raised(p.status)
        ELSE IF Len(q) + Len(p.resolved) > InputQueueMax THEN raised(429)
        ELSE LET st == Enqueue([var_store |-> store, jobs |-> js, queued |-> q,
                                accepted |-> <<>>], p.resolved, now)
             IN  [status |-> 200, bad |-> 0, accepted |-> st.accepted,
                  var_store |-> st.var_store, jobs |-> st.jobs, queued |-> st.queued]

\* _monitor_callback: None, or a handler; what a handler does with a
\* snapshot is its own affair: it returns or it raises an Exception
NoHandler == "None"

\* The calls of the batch's jobs (by position) at which the handler raises
RaiseChoices(callback, batch) ==
    IF callback = NoHandler THEN {{}} ELSE SUBSET (1..Len(batch))

\* MonitorCalls were one try/except to enclose the whole loop: the first
\* call that raises ends it
MonitorCallsStopAtRaise(callback, js, ids, raises) ==
    IF callback = NoHandler THEN <<>>
    ELSE LET stop == IF \E k \in 1..Len(ids) : k \in raises
                     THEN CHOOSE k \in 1..Len(ids) :
                              k \in raises /\ \A m \in 1..(k - 1) : m \notin raises
                     ELSE Len(ids)
         IN  [k \in 1..stop |->
                 [job_id |-> ids[k], snapshot |-> JobOf(js, ids[k]).inputs,
                  known |-> JobIds(js), raised |-> k \in raises]]

\* Phase 4: one call per resolved job with the job's inputs, each in its own
\* try/except; known is the ledger's ids at the time of the call
MonitorCalls(callback, js, ids, raises) ==
    IF callback = NoHandler THEN <<>>
    ELSE [k \in 1..Len(ids) |->
             [job_id |-> ids[k], snapshot |-> JobOf(js, ids[k]).inputs,
              known |-> JobIds(js), raised |-> k \in raises]]

\* _enqueue_jobs with its monitor calls: EnqueueJobsOut's record and calls
EnqueueJobs(store, js, q, batch, now, callback, raises) ==
    LET o == EnqueueJobsOut(store, js, q, batch, now)
        ids == [i \in 1..Len(o.accepted) |-> o.accepted[i].job_id]
    IN  [status |-> o.status, bad |-> o.bad, accepted |-> o.accepted,
         var_store |-> o.var_store, jobs |-> o.jobs, queued |-> o.queued,
         calls |-> IF o.status = 200
                   THEN MonitorCalls(callback, o.jobs, ids, raises) ELSE <<>>]

(***************************************************************************)
(* get_many(data, consume_jobs): [kind, batch, values, var_store, jobs,    *)
(* queued, promoted].  kind says which of the two shapes is returned: a    *)
(* "list" of input snapshots (batch) or a "dict" of name -> value.         *)
(***************************************************************************)
\* MarkRunning were the promotion to take the snapshot out of the record
MarkRunningTakesInputs(js, jid, now) ==
    [js EXCEPT ![JobIdx(js, jid)].status = "running",
               ![JobIdx(js, jid)].started_at = now,
               ![JobIdx(js, jid)].inputs = EmptyDict]

\* MarkRunning were it to stamp started_at only
MarkRunningStampOnly(js, jid, now) ==
    [js EXCEPT ![JobIdx(js, jid)].started_at = now]

\* job['status'] = 'running'; job['started_at'] = time.time()
MarkRunning(js, jid, now) ==
    [js EXCEPT ![JobIdx(js, jid)].status = "running",
               ![JobIdx(js, jid)].started_at = now]

\* ConsumeAll were it to put each snapshot at the front of the list
RECURSIVE ConsumeAllReversed(_, _)
ConsumeAllReversed(st, now) ==
    IF st.queued = <<>> THEN st
    ELSE LET jid == Head(st.queued)
             js == MarkRunning(st.jobs, jid, now)
         IN  ConsumeAllReversed([jobs |-> js, queued |-> Tail(st.queued),
                                 batch |-> <<JobOf(js, jid).inputs>> \o st.batch,
                                 promoted |-> Append(st.promoted, jid)], now)

\* while self._queued: popleft, mark running, append the snapshot
RECURSIVE ConsumeAll(_, _)
ConsumeAll(st, now) ==
    IF st.queued = <<>> THEN st
    ELSE LET jid == Head(st.queued)
             js == MarkRunning(st.jobs, jid, now)
         IN  ConsumeAll([jobs |-> js, queued |-> Tail(st.queued),
                         batch |-> Append(st.batch, JobOf(js, jid).inputs),
                         promoted |-> Append(st.promoted, jid)], now)

\* RestoreInputs were the restore left out
RestoreNothing(store, inputs) == store

\* RestoreInputs were it to reset to its default every variable that is not
\* among the inputs
RestoreInputsResetOthers(store, inputs) ==
    [n \in DOMAIN store |-> IF n \in DOMAIN inputs THEN inputs[n].value ELSE InitStore[n]]

\* for vname, snap in job['inputs'].items(): store[vname] = copy of snap value
RestoreInputs(store, inputs) ==
    [n \in DOMAIN store |-> IF n \in DOMAIN inputs THEN inputs[n].value ELSE store[n]]

\* result[name] = {'value': store[name]} for the requested names in the store
ReadValues(store, names) ==
    [n \in {x \in SeqToSet(names) : x \in DOMAIN store} |-> [value |-> store[n]]]

\* get_many were the clock tick to pop the newest pending job (pop, not popleft)
GetManyNewest(store, js, q, data, consume, now) ==
    IF consume /\ q # <<>>
    THEN LET st == ConsumeAll([jobs |-> js, queued |-> q, batch |-> <<>>,
                               promoted |-> <<>>], now)
         IN  [kind |-> "list", batch |-> st.batch, values |-> EmptyDict,
              var_store |-> store, jobs |-> st.jobs, queued |-> st.queued,
              promoted |-> st.promoted]
    ELSE IF q # <<>>
    THEN LET jid == q[Len(q)]
             js2 == MarkRunning(js, jid, now)
             store2 == RestoreInputs(store, JobOf(js2, jid).inputs)
         IN  [kind |-> "dict", batch |-> <<>>, values |-> ReadValues(store2, data),
              var_store |-> store2, jobs |-> js2, queued |-> SubSeq(q, 1, Len(q) - 1),
              promoted |-> <<jid>>]
    ELSE [kind |-> "dict", batch |-> <<>>, values |-> ReadValues(store, data),
          var_store |-> store, jobs |-> js, queued |-> q, promoted |-> <<>>]

GetManyOut(store, js, q, data, consume, now) ==
    IF consume /\ q # <<>>
    THEN LET st == ConsumeAll([jobs |-> js, queued |-> q, batch |-> <<>>,
                               promoted |-> <<>>], now)
         IN  [kind |-> "list", batch |-> st.batch, values |-> EmptyDict,
              var_store |-> store, jobs |-> st.jobs, queued |-> st.queued,
              promoted |-> st.promoted]
    ELSE IF q # <<>>
    THEN LET jid == Head(q)
             js2 == MarkRunning(js, jid, now)
             store2 == RestoreInputs(store, JobOf(js2, jid).inputs)
         IN  [kind |-> "dict", batch |-> <<>>, values |-> ReadValues(store2, data),
              var_store |-> store2, jobs |-> js2, queued |-> Tail(q),
              promoted |-> <<jid>>]
    ELSE [kind |-> "dict", batch |-> <<>>, values |-> ReadValues(store, data),
          var_store |-> store, jobs |-> js, queued |-> q, promoted |-> <<>>]

\* the names a caller asks for
DataChoices == { <<>>, InList, <<"X", "Z">> }

(***************************************************************************)
(* put_many(data): data is a dict in insertion order, a sequence of        *)
(* entries [name, value, trace]; trace is metadata['trace']['job_id'], or  *)
(* NoId when the struct carries none (or an empty one).                    *)
(***************************************************************************)
PutEntry(name, value, trace) == [name |-> name, value |-> value, trace |-> trace]

\* The first loop: the first candidate that is truthy, else None
RECURSIVE ResolveTrace(_)
ResolveTrace(data) ==
    IF data = <<>> THEN NoId
    ELSE IF Head(data).trace # NoId THEN Head(data).trace
    ELSE ResolveTrace(Tail(data))

\* The exception that leaves the second loop, "" when it runs to its end:
\* except (TypeError, ValueError) lets any other exception of the coercion
\* through
RECURSIVE WriteRaises(_)
WriteRaises(data) ==
    IF data = <<>> THEN ""
    ELSE LET e == Head(data)
             c == IF e.name \in VarNames THEN CoerceForType(e.name, e.value)
                  ELSE CoerceOk(e.value)
         IN  IF ~c.ok /\ c.exc \notin {"TypeError", "ValueError"} THEN c.exc
             ELSE WriteRaises(Tail(data))

\* The second loop: unknown names and values that fail coercion with a
\* TypeError or ValueError are skipped; the store as the loop leaves it
RECURSIVE WriteValues(_, _)
WriteValues(store, data) ==
    IF data = <<>> THEN store
    ELSE LET e == Head(data)
             c == IF e.name \in VarNames THEN CoerceForType(e.name, e.value)
                  ELSE CoerceErr("KeyError", e.value)
         IN  IF WriteRaises(<<e>>) # "" THEN store
             ELSE WriteValues(IF c.ok THEN [store EXCEPT ![e.name] = c.value]
                              ELSE store,
                              Tail(data))

\* OldestRunning were the scan to keep the last running job it meets
NewestRunning(js, i) ==
    LET running == {k \in i..Len(js) : js[k].status = "running"}
    IN  IF running = {} THEN NoId
        ELSE js[CHOOSE k \in running : \A m \in running : m <= k].job_id

\* The FIFO fallback: the first running job in the ledger's insertion order
RECURSIVE OldestRunning(_, _)
OldestRunning(js, i) ==
    IF i > Len(js) THEN NoId
    ELSE IF js[i].status = "running" THEN js[i].job_id
    ELSE OldestRunning(js, i + 1)

\* job['outputs'][vname] = {value, timestamp} for vname in self._out_list
RECURSIVE RecordOutputs(_, _, _, _)
RecordOutputs(outputs, store, names, now) ==
    IF names = <<>> THEN outputs
    ELSE RecordOutputs(DictSet(outputs, Head(names),
                               [value |-> store[Head(names)], timestamp |-> now]),
                       store, Tail(names), now)

\* EnforceCapacity were the loop to pop the newest completed id (pop, not
\* popleft)
RECURSIVE EnforceCapacityNewest(_)
EnforceCapacityNewest(st) ==
    IF Len(st.completed) <= OutputQueueMax THEN st
    ELSE LET evicted_id == st.completed[Len(st.completed)]
             i == JobIdx(st.jobs, evicted_id)
         IN  EnforceCapacityNewest(
                 [jobs |-> [st.jobs EXCEPT ![i].status = "failed",
                                           ![i].error = EvictedError],
                  completed |-> SubSeq(st.completed, 1, Len(st.completed) - 1),
                  evicted |-> Append(st.evicted, evicted_id)])

\* EnforceCapacity were the loop to tolerate one id more than the maximum
RECURSIVE EnforceCapacityLate(_)
EnforceCapacityLate(st) ==
    IF Len(st.completed) <= OutputQueueMax + 1 THEN st
    ELSE LET evicted_id == Head(st.completed)
             i == JobIdx(st.jobs, evicted_id)
         IN  EnforceCapacityLate(
                 [jobs |-> [st.jobs EXCEPT ![i].status = "failed",
                                           ![i].error = EvictedError],
                  completed |-> Tail(st.completed),
                  evicted |-> Append(st.evicted, evicted_id)])

\* EnforceCapacity were the eviction to set the status and leave the error
RECURSIVE EnforceCapacityStatusOnly(_)
EnforceCapacityStatusOnly(st) ==
    IF Len(st.completed) <= OutputQueueMax THEN st
    ELSE LET evicted_id == Head(st.completed)
             i == JobIdx(st.jobs, evicted_id)
         IN  EnforceCapacityStatusOnly(
                 [jobs |-> [st.jobs EXCEPT ![i].status = "failed"],
                  completed |-> Tail(st.completed),
                  evicted |-> Append(st.evicted, evicted_id)])

\* The eviction were it to drop the evicted job's record from the ledger
EnforceCapacityForgets(st) ==
    IF Len(st.completed) <= OutputQueueMax THEN st
    ELSE LET evicted_id == Head(st.completed)
             i == JobIdx(st.jobs, evicted_id)
         IN  [jobs |-> IF evicted_id \in JobIds(st.jobs)
                       THEN [k \in 1..(Len(st.jobs) - 1) |->
                                IF k < i THEN st.jobs[k] ELSE st.jobs[k + 1]]
                       ELSE st.jobs,
              completed |-> Tail(st.completed),
              evicted |-> Append(st.evicted, evicted_id)]

\* while len(self._completed) > self._output_queue_max: evict the head
RECURSIVE EnforceCapacity(_)
EnforceCapacity(st) ==
    IF Len(st.completed) <= OutputQueueMax THEN st
    ELSE LET evicted_id == Head(st.completed)
             i == JobIdx(st.jobs, evicted_id)
         IN  EnforceCapacity(
                 [jobs |-> IF evicted_id \in JobIds(st.jobs)
                           THEN [st.jobs EXCEPT ![i].status = "failed",
                                                ![i].error = EvictedError]
                           ELSE st.jobs,
                  completed |-> Tail(st.completed),
                  evicted |-> Append(st.evicted, evicted_id)])

\* CompleteJob were the test of the job's status left out
CompleteJobAnyStatus(store, js, comp, job_id, now) ==
    IF job_id # NoId /\ job_id \in JobIds(js)
    THEN LET i == JobIdx(js, job_id)
             js2 == [js EXCEPT ![i].status = "completed",
                               ![i].completed_at = now,
                               ![i].outputs = RecordOutputs(js[i].outputs, store,
                                                            OutList, now)]
             st == EnforceCapacity([jobs |-> js2, completed |-> Append(comp, job_id),
                                    evicted |-> <<>>])
         IN  [jobs |-> st.jobs, completed |-> st.completed, evicted |-> st.evicted,
              done |-> TRUE]
    ELSE [jobs |-> js, completed |-> comp, evicted |-> <<>>, done |-> FALSE]

\* CompleteJob were it to stamp completed_at with the job's submitted_at
CompleteJobStampsSubmitted(store, js, comp, job_id, now) ==
    IF job_id # NoId /\ job_id \in JobIds(js) /\ JobOf(js, job_id).status = "running"
    THEN LET i == JobIdx(js, job_id)
             js2 == [js EXCEPT ![i].status = "completed",
                               ![i].completed_at = js[i].submitted_at,
                               ![i].outputs = RecordOutputs(js[i].outputs, store,
                                                            OutList, now)]
             st == EnforceCapacity([jobs |-> js2, completed |-> Append(comp, job_id),
                                    evicted |-> <<>>])
         IN  [jobs |-> st.jobs, completed |-> st.completed, evicted |-> st.evicted,
              done |-> TRUE]
    ELSE [jobs |-> js, completed |-> comp, evicted |-> <<>>, done |-> FALSE]

\* The job-completion block for the resolved job_id
CompleteJob(store, js, comp, job_id, now) ==
    IF job_id # NoId /\ job_id \in JobIds(js) /\ JobOf(js, job_id).status = "running"
    THEN LET i == JobIdx(js, job_id)
             js2 == [js EXCEPT ![i].status = "completed",
                               ![i].completed_at = now,
                               ![i].outputs = RecordOutputs(js[i].outputs, store,
                                                            OutList, now)]
             st == EnforceCapacity([jobs |-> js2, completed |-> Append(comp, job_id),
                                    evicted |-> <<>>])
         IN  [jobs |-> st.jobs, completed |-> st.completed, evicted |-> st.evicted,
              done |-> TRUE]
    ELSE [jobs |-> js, completed |-> comp, evicted |-> <<>>, done |-> FALSE]

\* put_many were it to ignore the trace id and always complete the oldest
\* running job
PutManyFifoOnly(store, js, comp, data, now) ==
    LET store2 == WriteValues(store, data)
        raised == WriteRaises(data)
        job_id == IF raised # "" THEN NoId ELSE OldestRunning(js, 1)
        c == CompleteJob(store2, js, comp, job_id, now)
    IN  [var_store |-> store2, jobs |-> c.jobs, completed |-> c.completed,
         job_id |-> job_id, done |-> c.done, evicted |-> c.evicted, exc |-> raised]

\* put_many were it to complete the job before it writes the values
PutManySnapshotFirst(store, js, comp, data, now) ==
    LET traced == ResolveTrace(data)
        raised == WriteRaises(data)
        job_id == IF raised # "" THEN NoId
                  ELSE IF traced = NoId THEN OldestRunning(js, 1) ELSE traced
        c == CompleteJob(store, js, comp, job_id, now)
    IN  [var_store |-> WriteValues(store, data), jobs |-> c.jobs,
         completed |-> c.completed, job_id |-> job_id, done |-> c.done,
         evicted |-> c.evicted, exc |-> raised]

\* put_many were it to fall back to the oldest running job also when the
\* traced job is unknown or not running
PutManyFallback(store, js, comp, data, now) ==
    LET traced == ResolveTrace(data)
        store2 == WriteValues(store, data)
        raised == WriteRaises(data)
        live == traced \in JobIds(js) /\ JobOf(js, traced).status = "running"
        job_id == IF raised # "" THEN NoId
                  ELSE IF traced = NoId \/ ~live THEN OldestRunning(js, 1) ELSE traced
        c == CompleteJob(store2, js, comp, job_id, now)
    IN  [var_store |-> store2, jobs |-> c.jobs, completed |-> c.completed,
         job_id |-> job_id, done |-> c.done, evicted |-> c.evicted, exc |-> raised]

\* put_many were it to have no FIFO fallback: only a trace id completes a job
PutManyNoFallback(store, js, comp, data, now) ==
    LET traced == ResolveTrace(data)
        store2 == WriteValues(store, data)
        raised == WriteRaises(data)
        job_id == IF raised # "" THEN NoId ELSE traced
        c == CompleteJob(store2, js, comp, job_id, now)
    IN  [var_store |-> store2, jobs |-> c.jobs, completed |-> c.completed,
         job_id |-> job_id, done |-> c.done, evicted |-> c.evicted, exc |-> raised]

\* put_many as a whole: [var_store, jobs, completed, job_id, done, evicted,
\* exc]; exc is the exception raised, "" when the call returns.  An
\* exception leaves the write loop before the completion step is reached.
PutManyOut(store, js, comp, data, now) ==
    LET traced == ResolveTrace(data)
        store2 == WriteValues(store, data)
        raised == WriteRaises(data)
        job_id == IF raised # "" THEN NoId
                  ELSE IF traced = NoId THEN OldestRunning(js, 1) ELSE traced
        c == CompleteJob(store2, js, comp, job_id, now)
    IN  [var_store |-> store2, jobs |-> c.jobs, completed |-> c.completed,
         job_id |-> job_id, done |-> c.done, evicted |-> c.evicted, exc |-> raised]

\* What the pipeline writes back when a model emits an integer beyond the
\* float range
OverflowData ==
    { <<PutEntry("X", HugeIntV, tr), PutEntry("A", IntV(2), NoId)>> : tr \in {NoId, Uuid(1)} }

\* What the pipeline writes back, and the trace ids its structs may carry
PutData ==
    { [i \in 1..Len(vc) |-> PutEntry(vc[i].name, vc[i].value, tr[i])] :
          vc \in { <<>>,
                   <<PutEntry("X", IntV(2), NoId)>>,
                   <<PutEntry("Z", IntV(2), NoId), PutEntry("X", IntV(2), NoId)>>,
                   <<PutEntry("X", StrV, NoId), PutEntry("A", IntV(2), NoId)>> },
          tr \in [1..2 -> {NoId, ClientId(1), Uuid(1)}] }

\* PutOut were the enforce_mode flag ignored
PutOutAlwaysEnforce(store, name, value, enforce) ==
    IF name \notin VarNames THEN [exc |-> "KeyError", var_store |-> store]
    ELSE IF VarMeta[name].mode = "out"
    THEN [exc |-> "PermissionError", var_store |-> store]
    ELSE LET c == CoerceForType(name, value)
         IN  IF c.ok THEN [exc |-> "", var_store |-> [store EXCEPT ![name] = c.value]]
             ELSE [exc |-> c.exc, var_store |-> store]

\* PutOut were the value stored before the mode is checked
PutOutWriteFirst(store, name, value, enforce) ==
    IF name \notin VarNames THEN [exc |-> "KeyError", var_store |-> store]
    ELSE LET c == CoerceForType(name, value)
             store2 == IF c.ok THEN [store EXCEPT ![name] = c.value] ELSE store
         IN  IF enforce /\ VarMeta[name].mode = "out"
             THEN [exc |-> "PermissionError", var_store |-> store2]
             ELSE [exc |-> IF c.ok THEN "" ELSE c.exc, var_store |-> store2]

(***************************************************************************)
(* put(name, value, enforce_mode): [exc, var_store]; exc is the exception  *)
(* raised, "" when the call returns.                                       *)
(***************************************************************************)
PutOut(store, name, value, enforce) ==
    IF name \notin VarNames THEN [exc |-> "KeyError", var_store |-> store]
    ELSE IF enforce /\ VarMeta[name].mode = "out"
    THEN [exc |-> "PermissionError", var_store |-> store]
    ELSE LET c == CoerceForType(name, value)
         IN  IF c.ok THEN [exc |-> "", var_store |-> [store EXCEPT ![name] = c.value]]
             ELSE [exc |-> c.exc, var_store |-> store]

PutValues == {IntV(2), StrV, ListV(<<7, 8>>), ListV(<<7>>), List2V(1, 2, <<0, 0>>)}

(***************************************************************************)
(* GET /jobs/next: [status, jid, completed].                               *)
(***************************************************************************)
NextCompletedOutNewest(comp) ==
    IF comp = <<>> THEN [status |-> 404, jid |-> NoId, completed |-> comp]
    ELSE [status |-> 200, jid |-> comp[Len(comp)], completed |-> SubSeq(comp, 1, Len(comp) - 1)]

NextCompletedOut(comp) ==
    IF comp = <<>> THEN [status |-> 404, jid |-> NoId, completed |-> comp]
    ELSE [status |-> 200, jid |-> Head(comp), completed |-> Tail(comp)]

(***************************************************************************)
(* The calls as steps.  Calls are serialised by the interface's lock: a    *)
(* call runs as one step and leaves a digest of what it did in last; the   *)
(* next call starts once the caller has taken the result (Return).         *)
(***************************************************************************)
NoCall ==
    [op |-> "idle", status |-> 200, kind |-> "", bad |-> 0, jid |-> NoId, ids |-> <<>>,
     calls |-> <<>>]

Idle == last = NoCall

\* POST /submit and POST /jobs: one call of _enqueue_jobs
Submit(batch) ==
    /\ Idle
    /\ \E raises \in RaiseChoices(monitor_callback, batch) :
       \E o \in {EnqueueJobs(var_store, jobs, queued, batch, clock,
                             monitor_callback, raises)} :
        /\ o.status = 200 => Len(jobs) + Len(batch) <= MaxJobs
        /\ var_store' = o.var_store
        /\ jobs' = o.jobs
        /\ queued' = o.queued
        /\ last' = [NoCall EXCEPT !.op = "enqueue", !.status = o.status,
                                  !.bad = o.bad,
                                  !.ids = [i \in 1..Len(o.accepted) |-> o.accepted[i].job_id],
                                  !.calls = [i \in 1..Len(o.calls) |->
                                                [job_id |-> o.calls[i].job_id,
                                                 raised |-> o.calls[i].raised]]]
        /\ UNCHANGED <<completed, clock, pv, settings, client, monitor_callback, threads, registry>>

GetMany(data, consume) ==
    /\ Idle
    /\ \E o \in {GetManyOut(var_store, jobs, queued, data, consume, clock)} :
        /\ var_store' = o.var_store
        /\ jobs' = o.jobs
        /\ queued' = o.queued
        /\ last' = [NoCall EXCEPT !.op = "get_many",
                                  !.kind = IF consume THEN "consume" ELSE "tick",
                                  !.ids = o.promoted]
        /\ UNCHANGED <<completed, clock, pv, settings, client, monitor_callback, threads, registry>>

PutMany(data) ==
    /\ Idle
    /\ \E o \in {PutManyOut(var_store, jobs, completed, data, clock)} :
        /\ var_store' = o.var_store
        /\ jobs' = o.jobs
        /\ completed' = o.completed
        /\ last' = [NoCall EXCEPT !.op = "put_many",
                                  !.kind = IF o.exc # "" THEN o.exc
                                           ELSE IF ResolveTrace(data) = NoId THEN "fifo"
                                           ELSE "trace",
                                  !.jid = IF o.done THEN o.job_id ELSE NoId,
                                  !.ids = o.evicted]
        /\ UNCHANGED <<queued, clock, pv, settings, client, monitor_callback, threads, registry>>

Put(name, value, enforce) ==
    /\ Idle
    /\ \E o \in {PutOut(var_store, name, value, enforce)} :
        /\ var_store' = o.var_store
        /\ last' = [NoCall EXCEPT !.op = "put", !.kind = o.exc]
        /\ UNCHANGED <<jobs, queued, completed, clock, pv, settings, client, monitor_callback,
                       threads, registry>>

NextCompletedJob ==
    /\ Idle
    /\ \E o \in {NextCompletedOut(completed)} :
        /\ completed' = o.completed
        /\ last' = [NoCall EXCEPT !.op = "jobs_next", !.status = o.status,
                                  !.jid = o.jid]
        /\ UNCHANGED <<var_store, jobs, queued, clock, pv, settings, client, monitor_callback,
                       threads, registry>>

\* time.time(): between two calls the wall clock moves on to a later reading
Tick ==
    /\ Idle
    /\ clock < MaxClock
    /\ clock' = clock + 1
    /\ UNCHANGED <<var_store, jobs, queued, completed, pv, settings, client,
                   monitor_callback, threads, last, registry>>

(***************************************************************************)
(* The clock-driven consumer c1: a loop of a clock-tick get_many, the      *)
(* pipeline's computation, and a put_many of outputs that carry no trace   *)
(* id.  threads.pc["c1"] is its position: idle before the tick, pipeline   *)
(* between the tick and the write-back.                                    *)
(***************************************************************************)
ConsumerTick ==
    /\ Idle
    /\ threads.pc["c1"] = "idle"
    /\ \E o \in {GetManyOut(var_store, jobs, queued, InList, FALSE, clock)} :
        /\ var_store' = o.var_store
        /\ jobs' = o.jobs
        /\ queued' = o.queued
        /\ last' = [NoCall EXCEPT !.op = "get_many", !.kind = "tick", !.ids = o.promoted]
    /\ threads' = [threads EXCEPT !.pc["c1"] = "pipeline"]
    /\ UNCHANGED <<completed, clock, pv, settings, client, monitor_callback, registry>>

ConsumerPut ==
    /\ Idle
    /\ threads.pc["c1"] = "pipeline"
    /\ \E data \in {d \in PutData : Len(d) <= 1 /\ \A i \in 1..Len(d) : d[i].trace = NoId} :
       \E o \in {PutManyOut(var_store, jobs, completed, data, clock)} :
        /\ var_store' = o.var_store
        /\ jobs' = o.jobs
        /\ completed' = o.completed
        /\ last' = [NoCall EXCEPT !.op = "put_many", !.kind = "fifo",
                                  !.jid = IF o.done THEN o.job_id ELSE NoId,
                                  !.ids = o.evicted]
    /\ threads' = [threads EXCEPT !.pc["c1"] = "idle"]
    /\ UNCHANGED <<queued, clock, pv, settings, client, monitor_callback, registry>>

\* The caller takes the result of its call
Return ==
    /\ ~Idle
    /\ last' = NoCall
    /\ UNCHANGED <<var_store, jobs, queued, completed, clock, pv, settings, client,
                   monitor_callback, threads, registry>>

\* monitor(handler): register the single monitor callback (None clears it)
Monitor(handler) ==
    /\ Idle
    /\ monitor_callback' = handler
    /\ last' = [NoCall EXCEPT !.op = "monitor"]
    /\ UNCHANGED <<var_store, jobs, queued, completed, clock, pv, settings, client, threads,
                   registry>>

(***************************************************************************)
(* The calls statement by statement, made by concurrent threads.  A thread *)
(* enters a call by taking _lock (with self._lock), runs the call's        *)
(* statements one step at a time and leaves by releasing the lock.  loc is *)
(* the thread's frame: the call's argument, the shared state it found on   *)
(* entry (start), its loop counters and what it has read or will return.   *)
(***************************************************************************)
Submitters == {"s1", "s2"}
Threads == Submitters \cup {"r1", "j1", "c1", "p1"}

Shared ==
    [var_store |-> var_store, jobs |-> jobs, queued |-> queued, completed |-> completed]

Frame ==
    [op |-> "", input |-> <<>>, flag |-> FALSE,
     start |-> [var_store |-> InitStore, jobs |-> <<>>, queued |-> <<>>,
                completed |-> <<>>],
     resolved |-> <<>>, i |-> 1, k |-> 1, snapshot |-> EmptyDict, jid |-> NoId,
     status |-> 200, obs |-> <<>>, popped |-> <<>>]

NoThreads ==
    [lock |-> "none", pc |-> [t \in Threads |-> "idle"], loc |-> [t \in Threads |-> Frame]]

\* The lock were it to let every caller in
CanAcquireAlways(lock, t) == TRUE

\* threading.RLock: free, or held by the caller itself (a caller outside
\* every call holds nothing)
CanAcquire(lock, t) == lock = "none" \/ lock = t

At(t, pc) == threads.pc[t] = pc
Goto(t, pc, frame) == [threads EXCEPT !.pc[t] = pc, !.loc[t] = frame]

\* with self._lock: enter call op with its argument
Enter(t, op, first, input, flag) ==
    /\ At(t, "idle")
    /\ CanAcquire(threads.lock, t)
    /\ threads' = [threads EXCEPT !.lock = t, !.pc[t] = first,
                                  !.loc[t] = [Frame EXCEPT !.op = op, !.input = input,
                                                           !.flag = flag,
                                                           !.start = Shared]]
    /\ UNCHANGED <<var_store, jobs, queued, completed, clock, pv, settings, client,
                   monitor_callback, last, registry>>

\* The end of the with block: the call returns or raises, the lock is free
Leave(t) ==
    /\ At(t, "leave")
    /\ threads' = [threads EXCEPT !.lock = "none", !.pc[t] = "idle", !.loc[t] = Frame]
    /\ UNCHANGED <<var_store, jobs, queued, completed, clock, pv, settings, client,
                   monitor_callback, last, registry>>

\* _enqueue_jobs, phases 1 and 2: validate everything, check the capacity
EnqueueValidate(t) ==
    /\ At(t, "validate")
    /\ LET f == threads.loc[t]
           p == PreValidate(jobs, f.input, 1, {}, <<>>)
       IN  threads' =
               IF p.status # 200 THEN Goto(t, "leave", [f EXCEPT !.status = p.status])
               ELSE IF Len(queued) + Len(p.resolved) > InputQueueMax
               THEN Goto(t, "leave", [f EXCEPT !.status = 429])
               ELSE IF p.resolved = <<>> THEN Goto(t, "leave", f)
               ELSE Goto(t, "commit_var", [f EXCEPT !.resolved = p.resolved])
    /\ UNCHANGED <<var_store, jobs, queued, completed, clock, pv, settings, client,
                   monitor_callback, last, registry>>

\* phase 3, inner loop: self._var_store[vname] = coerced; input_snapshot[vname] = ...
EnqueueCommitVar(t) ==
    /\ At(t, "commit_var")
    /\ LET f == threads.loc[t]
           variables == f.resolved[f.i].variables
       IN  IF f.k <= Len(variables)
           THEN LET c == CommitVariables([var_store |-> var_store,
                                          snapshot |-> f.snapshot, updated |-> <<>>],
                                         <<variables[f.k]>>, clock)
                IN  /\ var_store' = c.var_store
                    /\ threads' = Goto(t, "commit_var",
                                       [f EXCEPT !.snapshot = c.snapshot, !.k = f.k + 1])
           ELSE /\ var_store' = var_store
                /\ threads' = Goto(t, "ledger", f)
    /\ UNCHANGED <<jobs, queued, completed, clock, pv, settings, client, monitor_callback, last,
                   registry>>

\* self._jobs[jid] = job_record
EnqueueLedger(t) ==
    /\ At(t, "ledger")
    /\ LET f == threads.loc[t]
       IN  /\ jobs' = Append(jobs, JobRecord(f.resolved[f.i].job_id, clock, f.snapshot))
           /\ threads' = Goto(t, "queue", f)
    /\ UNCHANGED <<var_store, queued, completed, clock, pv, settings, client, monitor_callback,
                   last, registry>>

\* self._queued.append(jid), and on to the next resolved job
EnqueueQueue(t) ==
    /\ At(t, "queue")
    /\ LET f == threads.loc[t]
       IN  /\ queued' = Append(queued, f.resolved[f.i].job_id)
           /\ threads' = Goto(t, IF f.i < Len(f.resolved) THEN "commit_var" ELSE "leave",
                              [f EXCEPT !.i = f.i + 1, !.k = 1, !.snapshot = EmptyDict])
    /\ UNCHANGED <<var_store, jobs, completed, clock, pv, settings, client, monitor_callback, last,
                   registry>>

\* POST /get: one pass of the loop over req.variables
GetVarsRead(t) ==
    /\ At(t, "read_var")
    /\ LET f == threads.loc[t]
       IN  threads' =
               IF f.k > Len(f.input) THEN Goto(t, "leave", f)
               ELSE IF f.input[f.k] \notin DOMAIN var_store
               THEN Goto(t, "leave", [f EXCEPT !.status = 404])
               ELSE Goto(t, "read_var", [f EXCEPT !.obs = Append(f.obs, var_store[f.input[f.k]]),
                                                  !.k = f.k + 1])
    /\ UNCHANGED <<var_store, jobs, queued, completed, clock, pv, settings, client,
                   monitor_callback, last, registry>>

\* GET /jobs/next: if not self._completed: 404; jid = self._completed.popleft()
NextPop(t) ==
    /\ At(t, "next_pop")
    /\ LET f == threads.loc[t]
       IN  IF completed = <<>>
           THEN /\ completed' = completed
                /\ threads' = Goto(t, "leave", [f EXCEPT !.status = 404])
           ELSE /\ completed' = Tail(completed)
                /\ threads' = Goto(t, "job_read", [f EXCEPT !.jid = Head(completed)])
    /\ UNCHANGED <<var_store, jobs, queued, clock, pv, settings, client, monitor_callback, last,
                   registry>>

\* get_job(job_id): [status, obs], 404 for an id the ledger does not hold,
\* else the job's record
GetJobOut(js, job_id) ==
    IF job_id \notin JobIds(js) THEN [status |-> 404, obs |-> <<>>]
    ELSE [status |-> 200, obs |-> <<JobOf(js, job_id)>>]

\* GET /jobs/next and GET /jobs/{job_id}: return the job's record, or 404
JobRead(t) ==
    /\ At(t, "job_read")
    /\ LET f == threads.loc[t]
           o == GetJobOut(jobs, f.jid)
       IN  threads' =
               IF o.status = 404 THEN Goto(t, "leave", [f EXCEPT !.status = 404])
               ELSE Goto(t, "leave", [f EXCEPT !.obs = o.obs])
    /\ UNCHANGED <<var_store, jobs, queued, completed, clock, pv, settings, client,
                   monitor_callback, last, registry>>

\* get_many: if consume and self._queued / if self._queued; popleft
DrainPop(t) ==
    /\ At(t, "drain_pop")
    /\ LET f == threads.loc[t]
       IN  IF queued = <<>>
           THEN /\ queued' = queued
                /\ threads' = Goto(t, IF f.popped # <<>> /\ f.flag THEN "leave"
                                      ELSE "drain_read", f)
           ELSE /\ queued' = Tail(queued)
                /\ threads' = Goto(t, "drain_mark",
                                   [f EXCEPT !.jid = Head(queued),
                                             !.popped = Append(f.popped, Head(queued))])
    /\ UNCHANGED <<var_store, jobs, completed, clock, pv, settings, client, monitor_callback, last,
                   registry>>

\* job['status'] = 'running'; job['started_at'] = time.time();
\* consuming: batch.append(dict(job['inputs'])) and back to the loop test
DrainMark(t) ==
    /\ At(t, "drain_mark")
    /\ LET f == threads.loc[t]
       IN  /\ jobs' = MarkRunning(jobs, f.jid, clock)
           /\ threads' = IF f.flag
                         THEN Goto(t, "drain_pop",
                                   [f EXCEPT !.obs = Append(f.obs, JobOf(jobs, f.jid).inputs)])
                         ELSE Goto(t, "drain_restore", f)
    /\ UNCHANGED <<var_store, queued, completed, clock, pv, settings, client, monitor_callback,
                   last, registry>>

\* clock tick: restore the job's inputs into the store
DrainRestore(t) ==
    /\ At(t, "drain_restore")
    /\ var_store' = RestoreInputs(var_store, JobOf(jobs, threads.loc[t].jid).inputs)
    /\ threads' = Goto(t, "drain_read", threads.loc[t])
    /\ UNCHANGED <<jobs, queued, completed, clock, pv, settings, client, monitor_callback, last,
                   registry>>

\* the default path: the dict of the requested names that are in the store
DrainRead(t) ==
    /\ At(t, "drain_read")
    /\ LET f == threads.loc[t]
       IN  threads' = Goto(t, "leave", [f EXCEPT !.obs = <<ReadValues(var_store, f.input)>>])
    /\ UNCHANGED <<var_store, jobs, queued, completed, clock, pv, settings, client,
                   monitor_callback, last, registry>>

\* put_many: the trace id of the data, then one pass of the write loop
PutWrite(t) ==
    /\ At(t, "put_write")
    /\ LET f == threads.loc[t]
       IN  IF f.k <= Len(f.input)
           THEN /\ var_store' = WriteValues(var_store, <<f.input[f.k]>>)
                /\ threads' = IF WriteRaises(<<f.input[f.k]>>) # ""
                               THEN Goto(t, "leave", f)
                               ELSE Goto(t, "put_write", [f EXCEPT !.k = f.k + 1])
           ELSE /\ var_store' = var_store
                /\ threads' = Goto(t, "put_find", [f EXCEPT !.jid = ResolveTrace(f.input)])
    /\ UNCHANGED <<jobs, queued, completed, clock, pv, settings, client, monitor_callback, last,
                   registry>>

\* the FIFO fallback and the test of the job: known and running
PutFind(t) ==
    /\ At(t, "put_find")
    /\ LET f == threads.loc[t]
           job_id == IF f.jid = NoId THEN OldestRunning(jobs, 1) ELSE f.jid
       IN  threads' =
               IF job_id # NoId /\ job_id \in JobIds(jobs)
                  /\ JobOf(jobs, job_id).status = "running"
               THEN Goto(t, "put_complete", [f EXCEPT !.jid = job_id])
               ELSE Goto(t, "leave", [f EXCEPT !.jid = job_id])
    /\ UNCHANGED <<var_store, jobs, queued, completed, clock, pv, settings, client,
                   monitor_callback, last, registry>>

\* job['status'] = 'completed'; completed_at; the outputs
PutComplete(t) ==
    /\ At(t, "put_complete")
    /\ LET i == JobIdx(jobs, threads.loc[t].jid)
       IN  jobs' = [jobs EXCEPT ![i].status = "completed",
                                ![i].completed_at = clock,
                                ![i].outputs = RecordOutputs(jobs[i].outputs, var_store,
                                                             OutList, clock)]
    /\ threads' = Goto(t, "put_append", threads.loc[t])
    /\ UNCHANGED <<var_store, queued, completed, clock, pv, settings, client, monitor_callback,
                   last, registry>>

\* self._completed.append(job_id)
PutAppend(t) ==
    /\ At(t, "put_append")
    /\ completed' = Append(completed, threads.loc[t].jid)
    /\ threads' = Goto(t, "put_evict", threads.loc[t])
    /\ UNCHANGED <<var_store, jobs, queued, clock, pv, settings, client, monitor_callback, last,
                   registry>>

\* while len(self._completed) > self._output_queue_max: popleft
PutEvict(t) ==
    /\ At(t, "put_evict")
    /\ LET f == threads.loc[t]
       IN  IF Len(completed) > OutputQueueMax
           THEN /\ completed' = Tail(completed)
                /\ threads' = Goto(t, "put_fail",
                                   [f EXCEPT !.popped = Append(f.popped, Head(completed))])
           ELSE /\ completed' = completed
                /\ threads' = Goto(t, "leave", f)
    /\ UNCHANGED <<var_store, jobs, queued, clock, pv, settings, client, monitor_callback, last,
                   registry>>

\* the evicted job: status failed, error set
PutFail(t) ==
    /\ At(t, "put_fail")
    /\ LET f == threads.loc[t]
           evicted_id == f.popped[Len(f.popped)]
       IN  jobs' = IF evicted_id \in JobIds(jobs)
                   THEN [jobs EXCEPT ![JobIdx(jobs, evicted_id)].status = "failed",
                                     ![JobIdx(jobs, evicted_id)].error = EvictedError]
                   ELSE jobs
    /\ threads' = Goto(t, "put_evict", threads.loc[t])
    /\ UNCHANGED <<var_store, queued, completed, clock, pv, settings, client, monitor_callback,
                   last, registry>>

\* GET /jobs/{job_id}
CallGetJob(t, job_id) ==
    /\ At(t, "idle")
    /\ CanAcquire(threads.lock, t)
    /\ threads' = [threads EXCEPT !.lock = t, !.pc[t] = "job_read",
                                  !.loc[t] = [Frame EXCEPT !.op = "get_job",
                                                           !.jid = job_id,
                                                           !.start = Shared]]
    /\ UNCHANGED <<var_store, jobs, queued, completed, clock, pv, settings, client,
                   monitor_callback, last, registry>>

NextThreads ==
    \* POST /submit, POST /jobs
    \/ \E t \in Submitters,
          batch \in {b \in Batches :
                        /\ Len(b) >= 1
                        /\ \A i \in 1..Len(b) :
                               /\ b[i].job_id = NoId
                               /\ b[i].variables \in GoodVariables
                                      \cup {<<Entry("X", IntV(2), NoTime, MetaNone)>>}} :
           /\ Len(jobs) + Len(batch) <= MaxJobs
           /\ Enter(t, "enqueue", "validate", batch, FALSE)
    \* POST /get
    \/ \E names \in {<<"A", "B">>, <<"A", "Z">>} :
           Enter("r1", "get_vars", "read_var", names, FALSE)
    \* GET /jobs/next
    \/ Enter("j1", "jobs_next", "next_pop", <<>>, FALSE)
    \/ \E t \in {"j1"}, job_id \in {Uuid(1), Uuid(3)} : CallGetJob(t, job_id)
    \* get_many(data, consume_jobs=consume)
    \/ \E consume \in BOOLEAN : Enter("c1", "get_many", "drain_pop", InList, consume)
    \* put_many(data)
    \/ \E data \in {d \in PutData : /\ Len(d) = 2
                                    /\ d[1].trace \in {NoId, Uuid(2)}
                                    /\ d[2].trace = NoId} :
           Enter("p1", "put_many", "put_write", data, FALSE)
    \/ \E t \in Threads :
           \/ EnqueueValidate(t)
           \/ EnqueueCommitVar(t)
           \/ EnqueueLedger(t)
           \/ EnqueueQueue(t)
           \/ GetVarsRead(t)
           \/ NextPop(t)
           \/ JobRead(t)
           \/ DrainPop(t)
           \/ DrainMark(t)
           \/ DrainRestore(t)
           \/ DrainRead(t)
           \/ PutWrite(t)
           \/ PutFind(t)
           \/ PutComplete(t)
           \/ PutAppend(t)
           \/ PutEvict(t)
           \/ PutFail(t)
           \/ Leave(t)

(***************************************************************************)
(* The PVA server's scalar PV with compute_alarm enabled.                  *)
(***************************************************************************)
\* p4p_alarm_constants.ALARM_STATUSES
ALARM_STATUSES ==
    [normal |-> 0, highAlarm |-> 3, highWarning |-> 4, lowAlarm |-> 5, lowWarning |-> 6]

\* p4p_alarm_constants.DEFAULT_ALARM_SEVERITIES
DEFAULT_ALARM_SEVERITIES ==
    [lowAlarmSeverity |-> 2, lowWarningSeverity |-> 1,
     highWarningSeverity |-> 1, highAlarmSeverity |-> 2]

\* A float that is not a number
NanV == [t |-> "nan", v |-> <<>>]

\* float(value): ints and bools become the float of the same value, a float
\* stays, a string that is no number raises ValueError
FloatRaises(value) == value.t \notin {"int", "float", "bool", "nan"}

Float(value) == IF value.t = "nan" THEN NanV ELSE FloatV(value.v[1])

\* a <= limit and a >= limit on floats: every comparison with NaN is False
FloatLe(a, limit) == a.t = "float" /\ a.v[1] <= limit

FloatGe(a, limit) == a.t = "float" /\ a.v[1] >= limit

\* The limits a valueAlarm config may name
AlarmLimits == {-5, -2, 2, 5}

\* Severities normalise_variable_settings lets through
Severities == 0..3

\* normalise_variable_settings: the alarm policies that pass validation
\* (all four limits present and ordered, severities in range)
AlarmPolicies ==
    { p \in [lowAlarmLimit : AlarmLimits, lowWarningLimit : AlarmLimits,
              highWarningLimit : AlarmLimits, highAlarmLimit : AlarmLimits,
              lowAlarmSeverity : Severities, lowWarningSeverity : Severities,
              highWarningSeverity : Severities, highAlarmSeverity : Severities] :
          /\ p.lowAlarmLimit <= p.lowWarningLimit
          /\ p.lowWarningLimit <= p.highWarningLimit
          /\ p.highWarningLimit <= p.highAlarmLimit }

NormalAlarm == [severity |-> 0, status |-> ALARM_STATUSES.normal, message |-> ""]

ComputeAlarmKeepBand(value, policy) ==
    LET value_num == Float(value)
    IN  IF FloatLe(value_num, policy.lowAlarmLimit)
        THEN [severity |-> policy.lowAlarmSeverity,
              status |-> ALARM_STATUSES.lowAlarm, message |-> "LOLO"]
        ELSE IF FloatLe(value_num, policy.lowWarningLimit)
        THEN [severity |-> policy.lowWarningSeverity,
              status |-> ALARM_STATUSES.lowWarning, message |-> "LOW"]
        ELSE IF FloatGe(value_num, policy.highAlarmLimit)
        THEN [severity |-> policy.highAlarmSeverity,
              status |-> ALARM_STATUSES.highAlarm, message |-> "HIHI"]
        ELSE IF FloatGe(value_num, policy.highWarningLimit)
        THEN [severity |-> policy.highWarningSeverity,
              status |-> ALARM_STATUSES.highWarning, message |-> "HIGH"]
        ELSE NormalAlarm

ComputeAlarmInclusiveHighFirst(value, policy) ==
    LET value_num == Float(value)
        band ==
            IF FloatGe(value_num, policy.highAlarmLimit)
            THEN [severity |-> policy.highAlarmSeverity,
                  status |-> ALARM_STATUSES.highAlarm, message |-> "HIHI"]
            ELSE IF FloatGe(value_num, policy.highWarningLimit)
            THEN [severity |-> policy.highWarningSeverity,
                  status |-> ALARM_STATUSES.highWarning, message |-> "HIGH"]
            ELSE IF FloatLe(value_num, policy.lowAlarmLimit)
            THEN [severity |-> policy.lowAlarmSeverity,
                  status |-> ALARM_STATUSES.lowAlarm, message |-> "LOLO"]
            ELSE IF FloatLe(value_num, policy.lowWarningLimit)
            THEN [severity |-> policy.lowWarningSeverity,
                  status |-> ALARM_STATUSES.lowWarning, message |-> "LOW"]
            ELSE NormalAlarm
    IN  IF band.severity = 0 THEN NormalAlarm ELSE band

\* compute_alarm(value, policy), for a value float() accepts
ComputeAlarm(value, policy) ==
    LET value_num == Float(value)
        band ==
            IF FloatLe(value_num, policy.lowAlarmLimit)
            THEN [severity |-> policy.lowAlarmSeverity,
                  status |-> ALARM_STATUSES.lowAlarm, message |-> "LOLO"]
            ELSE IF FloatLe(value_num, policy.lowWarningLimit)
            THEN [severity |-> policy.lowWarningSeverity,
                  status |-> ALARM_STATUSES.lowWarning, message |-> "LOW"]
            ELSE IF FloatGe(value_num, policy.highAlarmLimit)
            THEN [severity |-> policy.highAlarmSeverity,
                  status |-> ALARM_STATUSES.highAlarm, message |-> "HIHI"]
            ELSE IF FloatGe(value_num, policy.highWarningLimit)
            THEN [severity |-> policy.highWarningSeverity,
                  status |-> ALARM_STATUSES.highWarning, message |-> "HIGH"]
            ELSE NormalAlarm
    IN  IF band.severity = 0 THEN NormalAlarm ELSE band

\* No PVA server is running
NoPv ==
    [policy |-> "None", value |-> FloatV(0), alarm |-> NormalAlarm,
     op |-> "none", exc |-> ""]

\* SimplePVAInterfaceServer.put(name, value): the payload carries no alarm,
\* so one is computed and posted with the value; if float(value) raises,
\* nothing is posted
PvPut(value) ==
    /\ pv.op # "none"
    /\ pv' = IF FloatRaises(value)
             THEN [pv EXCEPT !.op = "put", !.exc = "ValueError"]
             ELSE [pv EXCEPT !.op = "put", !.exc = "",
                             !.value = Float(value),
                             !.alarm = ComputeAlarm(value, pv.policy)]
    /\ UNCHANGED <<var_store, jobs, queued, completed, clock, settings, client, monitor_callback,
                   threads, last, registry>>


(***************************************************************************)
(* normalise_variable_settings: a PV's configuration made into settings.   *)
(* A dict is a function on its keys; an optional dict is None, a dict or   *)
(* something that is no dict.                                              *)
(***************************************************************************)
SUPPORTED_PV_TYPES == {"scalar", "waveform", "array", "image"}

ALARM_LIMIT_FIELDS ==
    <<"lowAlarmLimit", "lowWarningLimit", "highWarningLimit", "highAlarmLimit">>

ALARM_SEVERITY_FIELDS ==
    <<"lowAlarmSeverity", "lowWarningSeverity", "highWarningSeverity", "highAlarmSeverity">>

NoneV == [kind |-> "None", d |-> EmptyDict]

\* None where a number or a bool is expected
PyNone == [t |-> "None", v |-> <<>>]

DictV(d) == [kind |-> "dict", d |-> d]

NotADict == [kind |-> "other", d |-> EmptyDict]

\* A float with a fractional part: k/2 for an odd k
HalfV(k) == [t |-> "half", v |-> <<k>>]

\* int(value): an int stays, a bool becomes 0 or 1, a float is truncated
\* towards zero, a string that is no number raises ValueError
IntRaises(value) == value.t \notin {"int", "float", "bool", "half"}

PyInt(value) ==
    IF value.t = "half"
    THEN IF value.v[1] >= 0 THEN value.v[1] \div 2 ELSE 0 - ((0 - value.v[1]) \div 2)
    ELSE value.v[1]

IsTrueAlways(value) == TRUE

\* `x is True`
IsTrue(value) == value = BoolV(1)

\* d.get(key), with the default when the key is absent
DictGet(d, key, default) == IF key \in DOMAIN d THEN d[key] ELSE default

\* _copy_optional_dict
CopyOptionalDict(value, allowed_keys) ==
    IF value.kind = "None" THEN [exc |-> "", value |-> NoneV]
    ELSE IF value.kind # "dict" THEN [exc |-> "ValueError", value |-> NoneV]
    ELSE IF DOMAIN value.d \ allowed_keys # {} THEN [exc |-> "ValueError", value |-> NoneV]
    ELSE [exc |-> "", value |-> DictV(value.d)]

\* a <= b on floats made by float(): every comparison with NaN is False
LimitLe(a, b) == a.t = "float" /\ b.t = "float" /\ a.v[1] <= b.v[1]

\* A dict is truthy when it is a non-empty dict
DictTruthy(value) == value.kind = "dict" /\ DOMAIN value.d # {}

SettingsError(exc, why) == [exc |-> exc, why |-> why, settings |-> NoneV]

PolicySeveritiesOneDefault(d) ==
    [f \in SeqToSet(ALARM_SEVERITY_FIELDS) |->
        PyInt(DictGet(d, f, IntV(DEFAULT_ALARM_SEVERITIES.lowAlarmSeverity)))]

\* The severities of the policy: int() of what the config gives, the
\* default for a band the config leaves out
PolicySeverities(d) ==
    [f \in SeqToSet(ALARM_SEVERITY_FIELDS) |->
        PyInt(DictGet(d, f, IntV(DEFAULT_ALARM_SEVERITIES[f])))]

BadSeverityUpperOnly(d) ==
    \E f \in SeqToSet(ALARM_SEVERITY_FIELDS) :
        LET given == DictGet(d, f, IntV(DEFAULT_ALARM_SEVERITIES[f]))
        IN  \/ IntRaises(given)
            \/ PyInt(given) > 3

\* The severity loop raises: int() fails or the severity is out of range
BadSeverity(d) ==
    \E f \in SeqToSet(ALARM_SEVERITY_FIELDS) :
        LET given == DictGet(d, f, IntV(DEFAULT_ALARM_SEVERITIES[f]))
        IN  \/ IntRaises(given)
            \/ PyInt(given) < 0
            \/ PyInt(given) > 3

NormaliseVariableSettings(pv_cfg) ==
    LET DISPLAY_FIELDS == {"limitLow", "limitHigh", "description", "format", "units"}
        CONTROL_FIELDS == {"limitLow", "limitHigh", "minStep"}
        VALUE_ALARM_FIELDS ==
            {"active", "hysteresis"} \cup SeqToSet(ALARM_LIMIT_FIELDS)
                \cup SeqToSet(ALARM_SEVERITY_FIELDS)
        \* bool(pv_cfg.get('compute_alarm', False))
        Truthy(value) == value.t \in {"int", "float", "bool"} /\ value.v[1] # 0
        pv_type == DictGet(pv_cfg, "type", "scalar")
        compute_alarm == Truthy(DictGet(pv_cfg, "compute_alarm", BoolV(0)))
        display == CopyOptionalDict(DictGet(pv_cfg, "display", NoneV), DISPLAY_FIELDS)
        control == CopyOptionalDict(DictGet(pv_cfg, "control", NoneV), CONTROL_FIELDS)
        value_alarm ==
            CopyOptionalDict(DictGet(pv_cfg, "valueAlarm", NoneV), VALUE_ALARM_FIELDS)
        d == value_alarm.value.d
        limits == [f \in SeqToSet(ALARM_LIMIT_FIELDS) |-> Float(d[f])]
        Made(policy) ==
            [exc |-> "", why |-> "",
             settings |->
                 DictV([type |-> pv_type, is_scalar |-> pv_type = "scalar",
                        compute_alarm |-> compute_alarm,
                        display |-> display.value, control |-> control.value,
                        valueAlarm |-> value_alarm.value, alarm_policy |-> policy])]
    IN  IF pv_type \notin SUPPORTED_PV_TYPES THEN SettingsError("TypeError", "type")
        ELSE IF display.exc # "" THEN SettingsError(display.exc, "display")
        ELSE IF control.exc # "" THEN SettingsError(control.exc, "control")
        ELSE IF value_alarm.exc # "" THEN SettingsError(value_alarm.exc, "valueAlarm")
        ELSE IF /\ pv_type = "image"
                /\ \/ DictTruthy(display.value)
                   \/ DictTruthy(control.value)
                   \/ DictTruthy(value_alarm.value)
        THEN SettingsError("ValueError", "image")
        ELSE IF compute_alarm /\ pv_type # "scalar"
        THEN SettingsError("ValueError", "not scalar")
        ELSE IF ~compute_alarm THEN Made(NoneV)
        ELSE IF value_alarm.value.kind = "None"
        THEN SettingsError("ValueError", "requires valueAlarm")
        ELSE IF ~IsTrue(DictGet(d, "active", PyNone))
        THEN SettingsError("ValueError", "requires active=true")
        ELSE IF ~(SeqToSet(ALARM_LIMIT_FIELDS) \subseteq DOMAIN d)
        THEN SettingsError("ValueError", "requires fields")
        ELSE IF \E f \in SeqToSet(ALARM_LIMIT_FIELDS) : FloatRaises(d[f])
        THEN SettingsError("ValueError", "float")
        ELSE IF ~(/\ LimitLe(limits.lowAlarmLimit, limits.lowWarningLimit)
                  /\ LimitLe(limits.lowWarningLimit, limits.highWarningLimit)
                  /\ LimitLe(limits.highWarningLimit, limits.highAlarmLimit))
        THEN SettingsError("ValueError", "limits must satisfy")
        ELSE IF BadSeverity(d)
        THEN SettingsError("ValueError", "severity")
        ELSE Made(DictV([f \in SeqToSet(ALARM_LIMIT_FIELDS)
                                  \cup SeqToSet(ALARM_SEVERITY_FIELDS) |->
                             IF f \in SeqToSet(ALARM_LIMIT_FIELDS)
                             THEN limits[f].v[1]
                             ELSE PolicySeverities(d)[f]]))

\* {**a, **b}
DictMerge(a, b) == [k \in DOMAIN a \cup DOMAIN b |-> IF k \in DOMAIN b THEN b[k] ELSE a[k]]

\* The dicts that give some of `keys` a value of `values`
DictsOver(keys, values) == UNION {[S -> values] : S \in SUBSET keys}

\* A dict that gives the keys of the sequence `fields` the values of `vals`
\* in order, leaving out the keys in `omit`
DictOf(fields, vals, omit) ==
    [f \in SeqToSet(fields) \ omit |->
        vals[CHOOSE i \in 1..Len(fields) : fields[i] = f]]

\* Limits a config may give, in the order of ALARM_LIMIT_FIELDS: ordered,
\* coinciding, out of order, not a number, not numeric
LimitDicts ==
    { DictOf(ALARM_LIMIT_FIELDS, vals, omit) :
          vals \in { <<FloatV(-5), FloatV(-2), FloatV(2), FloatV(5)>>,
                     <<IntV(2), IntV(2), IntV(2), IntV(2)>>,
                     <<FloatV(-5), FloatV(-5), FloatV(5), FloatV(5)>>,
                     <<FloatV(-2), FloatV(-5), FloatV(2), FloatV(5)>>,
                     <<FloatV(-5), FloatV(2), FloatV(-2), FloatV(5)>>,
                     <<FloatV(-5), FloatV(-2), FloatV(5), FloatV(2)>>,
                     <<FloatV(-5), NanV, FloatV(2), FloatV(5)>>,
                     <<FloatV(-5), FloatV(-2), FloatV(2), StrV>> },
          omit \in SUBSET SeqToSet(ALARM_LIMIT_FIELDS) }

GoodLimits ==
    DictOf(ALARM_LIMIT_FIELDS, <<FloatV(-5), FloatV(-2), FloatV(2), FloatV(5)>>, {})

\* Every choice of bands specified with severities in range, and every
\* choice of bands specified with one of them given a severity that is out
\* of range, or not whole, or no number
SeverityDicts ==
    DictsOver(SeqToSet(ALARM_SEVERITY_FIELDS), {IntV(0), IntV(3)})
        \cup { DictSet(base, f, odd) :
                   base \in DictsOver(SeqToSet(ALARM_SEVERITY_FIELDS), {IntV(2)}),
                   f \in SeqToSet(ALARM_SEVERITY_FIELDS),
                   odd \in {IntV(-1), IntV(4), HalfV(7), HalfV(9), HalfV(-1), HalfV(-3),
                            StrV} }

\* valueAlarm blocks: every choice of active with every choice of limits,
\* and every choice of severities with good limits and active: true
ValueAlarmDicts ==
    { DictMerge(active, limits) :
          active \in DictsOver({"active"}, {BoolV(1), BoolV(0), IntV(1)}),
          limits \in LimitDicts }
        \cup { DictMerge(DictMerge([active |-> BoolV(1)], GoodLimits), severities) :
                   severities \in SeverityDicts }

\* The PV configurations normalise_variable_settings is called with: scalars
\* with every valueAlarm block, and a few valueAlarm, display and control
\* entries with every type
PvCfgs ==
    { DictMerge(DictMerge(type, compute_alarm), [valueAlarm |-> DictV(value_alarm)]) :
          type \in DictsOver({"type"}, {"scalar"}),
          compute_alarm \in DictsOver({"compute_alarm"}, {BoolV(1), BoolV(0)}),
          value_alarm \in ValueAlarmDicts }
      \cup
    { DictMerge(DictMerge(DictMerge(type, compute_alarm), [valueAlarm |-> value_alarm]),
                DictMerge([display |-> display], [control |-> control])) :
          type \in DictsOver({"type"}, SUPPORTED_PV_TYPES \cup {"table"}),
          compute_alarm \in DictsOver({"compute_alarm"}, {BoolV(1), BoolV(0), IntV(1)}),
          value_alarm \in { NoneV, NotADict, DictV(EmptyDict), DictV([bogus |-> IntV(1)]),
                            DictV(DictMerge([active |-> BoolV(1)], GoodLimits)),
                            DictV(DictMerge([active |-> BoolV(0)], GoodLimits)),
                            DictV(GoodLimits) },
          display \in {NoneV, NotADict, DictV([units |-> StrV]), DictV([minStep |-> IntV(1)])},
          control \in {NoneV, DictV([minStep |-> IntV(1)]), DictV([units |-> StrV])} }

NoSettings == [pv_cfg |-> EmptyDict, op |-> "none", result |-> SettingsError("", "")]

\* SimplePVAInterface.__init__: the settings of a configured PV are made
NormaliseSettings ==
    /\ settings.op = "configured"
    /\ settings' = [settings EXCEPT !.op = "normalised",
                                    !.result = NormaliseVariableSettings(settings.pv_cfg)]
    /\ UNCHANGED <<var_store, jobs, queued, completed, clock, pv, client, monitor_callback, threads,
                   last, registry>>


(***************************************************************************)
(* SimplePVAInterface (the PVA client): put(name, value).  A payload is a  *)
(* bare value, a dict or a p4p Value; the transport (ctxt.put) may raise.  *)
(***************************************************************************)
\* An alarm a caller supplies with its payload
CallerAlarm == [severity |-> 1, status |-> ALARM_STATUSES.highWarning, message |-> "HIGH"]

\* alarm: "none" (no such field), "unset" (a Value's field the caller did
\* not set) or "set"; value: PyNone when there is no value field
Payload(kind, value, alarm, a) == [kind |-> kind, value |-> value, alarm |-> alarm, a |-> a]

Bare(value) == Payload("bare", value, "none", NormalAlarm)

\* _payload_has_explicit_alarm
PayloadHasExplicitAlarm(payload) ==
    CASE payload.kind = "Value" -> payload.alarm = "set"
      [] payload.kind = "dict" -> payload.alarm # "none"
      [] OTHER -> FALSE

\* _payload_extract_value: the value and whether there is one
PayloadExtractValue(payload) ==
    IF payload.kind \in {"Value", "dict"}
    THEN IF payload.value = PyNone THEN [value |-> PyNone, has_value |-> FALSE]
         ELSE [value |-> payload.value, has_value |-> TRUE]
    ELSE [value |-> payload.value, has_value |-> TRUE]

\* _payload_set_alarm
PayloadSetAlarm(payload, alarm) ==
    IF payload.kind \in {"Value", "dict"}
    THEN [payload EXCEPT !.alarm = "set", !.a = alarm]
    ELSE Payload("dict", payload.value, "set", alarm)

\* _coerce_client_value: an ndarray is wrapped as an NTNDArray
CoerceClientValue(payload) ==
    IF payload.kind = "bare" /\ payload.value.t \in {"ndarray", "ndarray2"}
    THEN [payload EXCEPT !.kind = "NTNDArray"]
    ELSE payload

\* The settings of the variables the client knows; None for another name
ClientSettings ==
    { NoneV,
      DictV([type |-> "scalar", compute_alarm |-> FALSE, alarm_policy |-> NoneV]),
      DictV([type |-> "array", compute_alarm |-> FALSE, alarm_policy |-> NoneV]) }
        \cup { DictV([type |-> "scalar", compute_alarm |-> TRUE, alarm_policy |-> DictV(p)]) :
                  p \in { q \in AlarmPolicies :
                              /\ q.lowAlarmLimit = -5 /\ q.lowWarningLimit = -2
                              /\ q.highWarningLimit = 2 /\ q.highAlarmLimit = 5
                              /\ q.lowAlarmSeverity = 2 /\ q.lowWarningSeverity = 1
                              /\ q.highWarningSeverity \in {0, 1}
                              /\ q.highAlarmSeverity = 2 } }

PrepareWritePayloadSubstitute(variable_settings, payload) ==
    IF variable_settings.kind = "None"
    THEN [exc |-> "", payload |-> payload, has_alarm |-> FALSE]
    ELSE IF ~variable_settings.d.compute_alarm
    THEN [exc |-> "", payload |-> payload, has_alarm |-> PayloadHasExplicitAlarm(payload)]
    ELSE IF ~PayloadExtractValue(payload).has_value
    THEN [exc |-> "ValueError", payload |-> payload, has_alarm |-> FALSE]
    ELSE IF FloatRaises(PayloadExtractValue(payload).value)
    THEN [exc |-> "TypeError", payload |-> payload, has_alarm |-> FALSE]
    ELSE [exc |-> "",
          payload |-> PayloadSetAlarm(payload,
                          ComputeAlarm(PayloadExtractValue(payload).value,
                                       variable_settings.d.alarm_policy.d)),
          has_alarm |-> TRUE]

\* _prepare_write_payload: the payload to send and whether it has an alarm
PrepareWritePayload(variable_settings, payload) ==
    IF variable_settings.kind = "None"
    THEN [exc |-> "", payload |-> payload, has_alarm |-> FALSE]
    ELSE IF PayloadHasExplicitAlarm(payload)
    THEN [exc |-> "", payload |-> payload, has_alarm |-> TRUE]
    ELSE IF ~variable_settings.d.compute_alarm
    THEN [exc |-> "", payload |-> payload, has_alarm |-> FALSE]
    ELSE IF ~PayloadExtractValue(payload).has_value
    THEN [exc |-> "ValueError", payload |-> payload, has_alarm |-> FALSE]
    ELSE IF FloatRaises(PayloadExtractValue(payload).value)
    THEN [exc |-> "TypeError", payload |-> payload, has_alarm |-> FALSE]
    ELSE [exc |-> "",
          payload |-> PayloadSetAlarm(payload,
                          ComputeAlarm(PayloadExtractValue(payload).value,
                                       variable_settings.d.alarm_policy.d)),
          has_alarm |-> TRUE]

ClientPutOutRetryAlways(variable_settings, value, fails) ==
    LET prepared == PrepareWritePayload(variable_settings, value)
        payload == CoerceClientValue(prepared.payload)
        fallback == PayloadExtractValue(payload)
    IN  IF prepared.exc # "" THEN [sent |-> <<>>, exc |-> prepared.exc]
        ELSE IF ~fails[1] THEN [sent |-> <<payload>>, exc |-> ""]
        ELSE IF ~fallback.has_value THEN [sent |-> <<payload>>, exc |-> "ValueError"]
        ELSE [sent |-> <<payload, CoerceClientValue(Bare(fallback.value))>>,
              exc |-> IF fails[2] THEN "TransportError" ELSE ""]

\* put(name, value): what the transport is sent, in order, and the
\* exception the caller sees ("" when put returns); fails[i] says whether
\* the i-th ctxt.put raises
ClientPutOut(variable_settings, value, fails) ==
    LET prepared == PrepareWritePayload(variable_settings, value)
        payload == CoerceClientValue(prepared.payload)
        fallback == PayloadExtractValue(payload)
    IN  IF prepared.exc # "" THEN [sent |-> <<>>, exc |-> prepared.exc]
        ELSE IF ~fails[1] THEN [sent |-> <<payload>>, exc |-> ""]
        ELSE IF ~prepared.has_alarm THEN [sent |-> <<payload>>, exc |-> "TransportError"]
        ELSE IF ~fallback.has_value THEN [sent |-> <<payload>>, exc |-> "ValueError"]
        ELSE [sent |-> <<payload, CoerceClientValue(Bare(fallback.value))>>,
              exc |-> IF fails[2] THEN "TransportError" ELSE ""]

\* What a caller may put
PutPayloads ==
    { Bare(value) : value \in {FloatV(3), FloatV(6), IntV(0), ListV(<<7, 8>>),
                               NdArray(<<7, 8>>)} }
        \cup { Payload(kind, value, alarm, a) :
                  kind \in {"dict", "Value"},
                  value \in {PyNone, FloatV(3), FloatV(6), ListV(<<7, 8>>)},
                  alarm \in {"none", "set"}, a \in {CallerAlarm} }
        \cup { Payload("Value", value, "unset", NormalAlarm) :
                  value \in {PyNone, FloatV(3), FloatV(6)} }

NoClient ==
    [variable_settings |-> NoneV, op |-> "none", value |-> Bare(PyNone),
     fails |-> <<FALSE, FALSE>>, sent |-> <<>>, exc |-> ""]

\* A caller puts a payload; the transport raises or not at each attempt
ClientPut(value, fails) ==
    /\ client.op # "none"
    /\ \E o \in {ClientPutOut(client.variable_settings, value, fails)} :
        client' = [client EXCEPT !.op = "put", !.value = value, !.fails = fails,
                                 !.sent = o.sent, !.exc = o.exc]
    /\ UNCHANGED <<var_store, jobs, queued, completed, clock, pv, settings,
                   monitor_callback, threads, last, registry>>

(***************************************************************************)
(* PluginRegistry (utils/plugin_registry.py).  registry.plugins is         *)
(* _plugins (name -> class), registry.loaded is _loaded; registry.manual   *)
(* is history: for each name registered by hand and not unregistered       *)
(* since, the class of the latest register call.                           *)
(***************************************************************************)
\* __init__: no plugins, discovery not yet run
NoRegistry == [plugins |-> EmptyDict, loaded |-> FALSE, manual |-> EmptyDict]

\* The entry points of the group in the order importlib.metadata yields
\* them: a is offered by two distributions, the load of b raises, c is
\* offered by none
EntryPoints ==
    <<[name |-> "a", class |-> "EntryA", loads |-> TRUE],
      [name |-> "b", class |-> "EntryB", loads |-> FALSE],
      [name |-> "a", class |-> "EntryA2", loads |-> TRUE]>>

\* discover_plugins were it to register every entry point it loads
DiscoverPluginsOverwrite(reg, fails) ==
    IF reg.loaded THEN reg
    ELSE IF fails THEN [reg EXCEPT !.loaded = TRUE]
    ELSE LET RECURSIVE Load(_, _)
             Load(plugins, i) ==
                 IF i > Len(EntryPoints) THEN plugins
                 ELSE LET ep == EntryPoints[i]
                      IN  IF ep.loads
                          THEN Load([n \in DOMAIN plugins \cup {ep.name} |->
                                        IF n = ep.name THEN ep.class ELSE plugins[n]],
                                    i + 1)
                          ELSE Load(plugins, i + 1)
         IN  [reg EXCEPT !.plugins = Load(reg.plugins, 1), !.loaded = TRUE]

\* discover_plugins(): nothing once _loaded; else every entry point that
\* loads is registered unless its name is taken; _loaded is set whatever
\* happened (fails: reading the entry points raised)
DiscoverPlugins(reg, fails) ==
    IF reg.loaded THEN reg
    ELSE IF fails THEN [reg EXCEPT !.loaded = TRUE]
    ELSE LET RECURSIVE Load(_, _)
             Load(plugins, i) ==
                 IF i > Len(EntryPoints) THEN plugins
                 ELSE LET ep == EntryPoints[i]
                      IN  IF ep.loads /\ ep.name \notin DOMAIN plugins
                          THEN Load([n \in DOMAIN plugins \cup {ep.name} |->
                                        IF n = ep.name THEN ep.class ELSE plugins[n]],
                                    i + 1)
                          ELSE Load(plugins, i + 1)
         IN  [reg EXCEPT !.plugins = Load(reg.plugins, 1), !.loaded = TRUE]

\* get(name): [registry, exc, value]: discovery first if it has not run,
\* then the class of the name or KeyError
GetOut(reg, name, fails) ==
    LET r == IF ~reg.loaded THEN DiscoverPlugins(reg, fails) ELSE reg
    IN  IF name \notin DOMAIN r.plugins
        THEN [registry |-> r, exc |-> "KeyError", value |-> ""]
        ELSE [registry |-> r, exc |-> "", value |-> r.plugins[name]]

\* register(name, plugin_class): self._plugins[name] = plugin_class
Register(name, plugin_class) ==
    /\ Idle
    /\ registry' =
           [registry EXCEPT
                !.plugins = [n \in DOMAIN registry.plugins \cup {name} |->
                                IF n = name THEN plugin_class ELSE registry.plugins[n]],
                !.manual = [n \in DOMAIN registry.manual \cup {name} |->
                               IF n = name THEN plugin_class ELSE registry.manual[n]]]
    /\ last' = [NoCall EXCEPT !.op = "register", !.ids = <<name>>]
    /\ UNCHANGED <<var_store, jobs, queued, completed, clock, pv, settings, client,
                   monitor_callback, threads>>

\* unregister(name): del self._plugins[name] if it is there
Unregister(name) ==
    /\ Idle
    /\ registry' =
           [registry EXCEPT
                !.plugins = [n \in DOMAIN registry.plugins \ {name} |-> registry.plugins[n]],
                !.manual = [n \in DOMAIN registry.manual \ {name} |-> registry.manual[n]]]
    /\ last' = [NoCall EXCEPT !.op = "unregister", !.ids = <<name>>]
    /\ UNCHANGED <<var_store, jobs, queued, completed, clock, pv, settings, client,
                   monitor_callback, threads>>

Discover(fails) ==
    /\ Idle
    /\ registry' = DiscoverPlugins(registry, fails)
    /\ last' = [NoCall EXCEPT !.op = "discover",
                              !.kind = IF registry.loaded THEN "loaded" ELSE "first"]
    /\ UNCHANGED <<var_store, jobs, queued, completed, clock, pv, settings, client,
                   monitor_callback, threads>>

Get(name, fails) ==
    /\ Idle
    /\ \E o \in {GetOut(registry, name, fails)} :
        /\ registry' = o.registry
        /\ last' = [NoCall EXCEPT !.op = "get", !.ids = <<name>>,
                                  !.kind = IF o.exc # "" THEN o.exc ELSE o.value]
    /\ UNCHANGED <<var_store, jobs, queued, completed, clock, pv, settings, client,
                   monitor_callback, threads>>

InitClient ==
    /\ var_store = InitStore
    /\ jobs = <<>>
    /\ queued = <<>>
    /\ completed = <<>>
    /\ clock = 1
    /\ monitor_callback = NoHandler
    /\ threads = NoThreads
    /\ pv = NoPv
    /\ settings = NoSettings
    /\ client \in {[NoClient EXCEPT !.variable_settings = s, !.op = "open"] :
                       s \in ClientSettings}
    /\ registry = NoRegistry
    /\ last = NoCall

NextClient ==
    \E value \in PutPayloads, fails \in [1..2 -> BOOLEAN] : ClientPut(value, fails)

\* The PVA client putting to one variable over a transport that may fail.
SpecClient == InitClient /\ [][NextClient]_vars

InitConfig ==
    /\ var_store = InitStore
    /\ jobs = <<>>
    /\ queued = <<>>
    /\ completed = <<>>
    /\ clock = 1
    /\ monitor_callback = NoHandler
    /\ threads = NoThreads
    /\ pv = NoPv
    /\ settings \in {[NoSettings EXCEPT !.pv_cfg = pv_cfg, !.op = "configured"] :
                         pv_cfg \in PvCfgs}
    /\ client = NoClient
    /\ registry = NoRegistry
    /\ last = NoCall

NextConfig == NormaliseSettings

\* A PV's configuration being normalised at construction.
SpecConfig == InitConfig /\ [][NextConfig]_vars

InitAlarm ==
    /\ var_store = InitStore
    /\ jobs = <<>>
    /\ queued = <<>>
    /\ completed = <<>>
    /\ clock = 1
    /\ monitor_callback = NoHandler
    /\ threads = NoThreads
    /\ pv \in {[policy |-> policy, value |-> FloatV(0),
                  alarm |-> ComputeAlarm(FloatV(0), policy), op |-> "open", exc |-> ""] :
                     policy \in AlarmPolicies}
    /\ settings = NoSettings
    /\ client = NoClient
    /\ registry = NoRegistry
    /\ last = NoCall

\* What a caller may write to the PV
NextAlarm ==
    \E value \in {FloatV(n) : n \in (0 - MaxValue)..MaxValue}
                     \cup {IntV(2), BoolV(1), NanV, StrV} :
        PvPut(value)

\* The PVA server with one scalar PV whose alarm is computed on every write.
SpecAlarm == InitAlarm /\ [][NextAlarm]_vars

Init ==
    /\ var_store = InitStore
    /\ jobs = <<>>
    /\ queued = <<>>
    /\ completed = <<>>
    /\ clock = 1
    /\ monitor_callback = NoHandler
    /\ threads = NoThreads
    /\ pv = NoPv
    /\ settings = NoSettings
    /\ client = NoClient
    /\ registry = NoRegistry
    /\ last = NoCall

Next ==
    \/ \E batch \in Batches : Submit(batch)
    \/ \E data \in DataChoices, consume \in BOOLEAN : GetMany(data, consume)
    \/ \E data \in PutData \cup OverflowData : PutMany(data)
    \/ \E name \in AllNames, value \in PutValues, enforce \in BOOLEAN :
           Put(name, value, enforce)
    \/ NextCompletedJob
    \/ Return

\* The broker with the clock standing still: every timestamp taken is the
\* same reading.
Spec == Init /\ [][Next]_vars

\* The broker under a wall clock that moves between the calls: jobs whose
\* inputs are accepted, drains of either kind, write-backs and polls.
NextTimed ==
    \/ \E batch \in {b \in Batches : \A i \in 1..Len(b) :
                         b[i].job_id = NoId /\ b[i].variables \in GoodVariables} :
           Submit(batch)
    \/ \E consume \in BOOLEAN : GetMany(InList, consume)
    \/ \E data \in {d \in PutData : Len(d) <= 1} : PutMany(data)
    \/ NextCompletedJob
    \/ Tick
    \/ Return

SpecTimed == Init /\ [][NextTimed]_vars

\* The broker drained by the clock-driven consumer alone, while callers
\* submit batches of jobs that set A, with or without an id of their own.
\* Every call returns; the consumer gets the lock for its next call again
\* and again.
NextConsumer ==
    \/ \E batch \in {b \in Batches : \A i \in 1..Len(b) :
                         b[i].variables = <<Entry("A", IntV(2), NoTime, MetaNone)>>} :
           Submit(batch)
    \/ ConsumerTick
    \/ ConsumerPut
    \/ Return

SpecConsumer ==
    /\ Init
    /\ [][NextConsumer]_vars
    /\ WF_vars(Return)
    /\ SF_vars(ConsumerTick)
    /\ SF_vars(ConsumerPut)

\* One plugin registry: callers register, unregister, discover and get in
\* any order.
NextRegistry ==
    \/ \E name \in {"a", "b", "c"}, plugin_class \in {"Manual1", "Manual2"} :
           Register(name, plugin_class)
    \/ \E name \in {"a", "b", "c"} : Unregister(name)
    \/ \E fails \in BOOLEAN : Discover(fails)
    \/ \E name \in {"a", "b", "c"}, fails \in BOOLEAN : Get(name, fails)
    \/ Return

SpecRegistry == Init /\ [][NextRegistry]_vars

\* The broker with a monitor callback registered and cleared at will.
NextMonitored == Next \/ \E handler \in {NoHandler, "handler"} : Monitor(handler)

SpecMonitored == Init /\ [][NextMonitored]_vars

\* The broker called by concurrent threads, statement by statement.
SpecThreads == Init /\ [][NextThreads]_vars

(***************************************************************************)
(* What the claims speak of.                                               *)
(***************************************************************************)
\* what _enqueue_jobs does with batch b, called in the current state
Admit(b) == EnqueueJobsOut(var_store, jobs, queued, b, clock)

\* Job i of batch b carries an id that is already known or that an earlier
\* job of b carries
DuplicateId(b, i) ==
    /\ b[i].job_id # NoId
    /\ \/ b[i].job_id \in JobIds(jobs)
       \/ \E k \in 1..(i - 1) : b[k].job_id = b[i].job_id

\* Job i of batch b references an undeclared or an output variable, or
\* carries a value that fails coercion
BadVariable(b, i) ==
    \E k \in 1..Len(b[i].variables) :
        LET e == b[i].variables[k]
        IN  \/ e.name \notin VarNames
            \/ VarMeta[e.name].mode = "out"
            \/ ~CoerceForType(e.name, e.value).ok

InvalidJob(b, i) == DuplicateId(b, i) \/ BadVariable(b, i)
InvalidBatch(b) == \E i \in 1..Len(b) : InvalidJob(b, i)

ValidationErrors == {409, 404, 403, 422}

\* The call left the store, the ledger and the pending queue as they were
\* and admitted nothing
NothingAdmitted(o) ==
    /\ o.accepted = <<>>
    /\ o.var_store = var_store
    /\ o.jobs = jobs
    /\ o.queued = queued

(***************************************************************************)
(* C1: batch admission is all-or-nothing on validation.  In every          *)
(* reachable state, a batch of which any job (at any position) has a       *)
(* duplicate id, an undeclared variable, an output variable or a value     *)
(* that fails coercion is refused with a validation error, admits no job   *)
(* and leaves the pending queue, the ledger and the store as they were.    *)
(***************************************************************************)
C1_AdmissionAllOrNothing ==
    Idle => \A b \in Batches :
                InvalidBatch(b) =>
                    /\ Admit(b).status \in ValidationErrors
                    /\ NothingAdmitted(Admit(b))

\* A batch whose second job is the invalid one has just been refused while
\* a job was pending
C1_Witness ==
    /\ last.op = "enqueue"
    /\ last.status \in ValidationErrors
    /\ last.bad = 2
    /\ queued # <<>>

(***************************************************************************)
(* C2 as stated: a batch with (pending + batch size) > input_queue_max is  *)
(* refused with the capacity error 429, nothing changes and none of its    *)
(* jobs is known afterwards.                                               *)
(***************************************************************************)
OverCapacity(b) == Len(queued) + Len(b) > InputQueueMax

NoJobKnown(b, o) == \A i \in 1..Len(b) : b[i].job_id \notin JobIds(o.jobs)

C2_Original ==
    Idle => \A b \in Batches :
                OverCapacity(b) =>
                    /\ Admit(b).status = 429
                    /\ NothingAdmitted(Admit(b))
                    /\ NoJobKnown(b, Admit(b))

(***************************************************************************)
(* C2, amended: a batch with (pending + batch size) > input_queue_max is   *)
(* refused as a whole and nothing changes; the error is the capacity error *)
(* 429 when every job of the batch passes validation (and then none of its *)
(* jobs is known afterwards), and the validation error otherwise, since    *)
(* validation comes first.                                                 *)
(***************************************************************************)
C2_CapacityRejection ==
    Idle => \A b \in Batches :
                OverCapacity(b) =>
                    /\ NothingAdmitted(Admit(b))
                    /\ IF InvalidBatch(b)
                       THEN Admit(b).status \in ValidationErrors
                       ELSE Admit(b).status = 429 /\ NoJobKnown(b, Admit(b))

\* A batch has just been refused for capacity with the pending queue full
C2_Witness ==
    /\ last.op = "enqueue"
    /\ last.status = 429
    /\ Len(queued) = InputQueueMax

(***************************************************************************)
(* C3 as stated: after a successful submission every admitted job is in    *)
(* the ledger with status queued, its snapshot holds the coerced value of  *)
(* each variable it submitted, the store holds those coerced values, and   *)
(* the ids are appended to the pending queue in batch order.               *)
(***************************************************************************)
Coerced(e) == CoerceForType(e.name, e.value).value
Names(variables) == {variables[k].name : k \in 1..Len(variables)}
AcceptedIds(o) == [i \in 1..Len(o.accepted) |-> o.accepted[i].job_id]

\* Job i of b is in the ledger, queued, under the id given (or a new one),
\* with a snapshot of exactly the coerced values
AdmittedAsQueued(b, o, i) ==
    LET jid == o.accepted[i].job_id
        job == JobOf(o.jobs, jid)
    IN  /\ b[i].job_id # NoId => jid = b[i].job_id
        /\ jid \notin JobIds(jobs)
        /\ jid \in JobIds(o.jobs)
        /\ job.status = "queued"
        /\ DOMAIN job.inputs = Names(b[i].variables)
        /\ \A k \in 1..Len(b[i].variables) :
               job.inputs[b[i].variables[k].name].value = Coerced(b[i].variables[k])

AppendedInOrder(b, o) ==
    /\ Len(o.accepted) = Len(b)
    /\ o.queued = queued \o AcceptedIds(o)
    /\ Len(o.jobs) = Len(jobs) + Len(b)
    /\ \A i \in 1..Len(jobs) : o.jobs[i] = jobs[i]

C3_Original ==
    Idle => \A b \in Batches :
                Admit(b).status = 200 =>
                    /\ AppendedInOrder(b, Admit(b))
                    /\ \A i \in 1..Len(b) :
                           /\ AdmittedAsQueued(b, Admit(b), i)
                           /\ \A k \in 1..Len(b[i].variables) :
                                  Admit(b).var_store[b[i].variables[k].name]
                                      = Coerced(b[i].variables[k])

(***************************************************************************)
(* C3, amended: as stated, except that the store holds, for each variable  *)
(* submitted, the coerced value given by the last job of the batch that    *)
(* submits it (a later job of the batch overwrites an earlier one's        *)
(* value); a variable no job submits keeps its value.                      *)
(***************************************************************************)
Submits(b, i, name) == name \in Names(b[i].variables)

LastValue(b, name) ==
    LET i == CHOOSE j \in 1..Len(b) :
                 Submits(b, j, name) /\ \A m \in (j + 1)..Len(b) : ~Submits(b, m, name)
        k == CHOOSE m \in 1..Len(b[i].variables) : b[i].variables[m].name = name
    IN  Coerced(b[i].variables[k])

C3_SubmissionVisible ==
    Idle => \A b \in Batches :
                Admit(b).status = 200 =>
                    /\ AppendedInOrder(b, Admit(b))
                    /\ \A i \in 1..Len(b) : AdmittedAsQueued(b, Admit(b), i)
                    /\ \A name \in VarNames :
                           Admit(b).var_store[name]
                               = IF \E i \in 1..Len(b) : Submits(b, i, name)
                                 THEN LastValue(b, name)
                                 ELSE var_store[name]

\* A batch of two jobs that give A different values has just been admitted
C3_Witness ==
    /\ last.op = "enqueue"
    /\ last.status = 200
    /\ Len(last.ids) = 2
    /\ JobOf(jobs, last.ids[1]).inputs["A"].value
           # JobOf(jobs, last.ids[2]).inputs["A"].value
    /\ var_store["A"] = JobOf(jobs, last.ids[2]).inputs["A"].value

(***************************************************************************)
(* C4 as stated: a job id equal to the id of a job in the ledger or of an  *)
(* earlier job of the batch makes the batch fail with the conflict error   *)
(* 409; so no two ledger records share an id and no id is twice pending.   *)
(***************************************************************************)
Distinct(s) == \A i, j \in 1..Len(s) : s[i] = s[j] => i = j
LedgerIds == [i \in 1..Len(jobs) |-> jobs[i].job_id]

C4_Original ==
    /\ Distinct(LedgerIds)
    /\ Distinct(queued)
    /\ Idle => \A b \in Batches :
                   (\E i \in 1..Len(b) : DuplicateId(b, i)) =>
                       Admit(b).status = 409 /\ NothingAdmitted(Admit(b))

(***************************************************************************)
(* C4, amended: such a job id makes the whole batch fail and nothing is    *)
(* admitted; the error is the conflict error 409 unless a job earlier in   *)
(* the batch fails the validation of its variables, whose error is then    *)
(* the one raised.  No two ledger records share an id and no id is twice   *)
(* in the pending queue.                                                   *)
(***************************************************************************)
C4_DuplicateIdConflict ==
    /\ Distinct(LedgerIds)
    /\ Distinct(queued)
    /\ Idle => \A b \in Batches :
                   \A i \in 1..Len(b) :
                       DuplicateId(b, i) =>
                           /\ NothingAdmitted(Admit(b))
                           /\ Admit(b).status \in ValidationErrors
                           /\ (\A k \in 1..(i - 1) : ~InvalidJob(b, k))
                                  => Admit(b).status = 409

\* A batch has just been refused with 409 while the ledger holds a job that
\* is no longer queued
C4_Witness ==
    /\ last.op = "enqueue"
    /\ last.status = 409
    /\ \E i \in 1..Len(jobs) :
           jobs[i].job_id = ClientId(1) /\ jobs[i].status \in {"completed", "failed"}

(***************************************************************************)
(* Drains and completions, called in the current state.                    *)
(***************************************************************************)
ClockTick(data) == GetManyOut(var_store, jobs, queued, data, FALSE, clock)
Consume(data) == GetManyOut(var_store, jobs, queued, data, TRUE, clock)
Complete(data) == PutManyOut(var_store, jobs, completed, data, clock)

StatusOf(js, jid) == JobOf(js, jid).status

\* The pending queue lists its jobs in the order they were submitted
\* (the ledger's insertion order)
InSubmissionOrder(q) ==
    \A i, j \in 1..Len(q) : i < j => JobIdx(jobs, q[i]) < JobIdx(jobs, q[j])

\* Only the jobs in ids changed status from js to js2
OnlyChanged(js, js2, ids) ==
    /\ Len(js2) = Len(js)
    /\ \A i \in 1..Len(js) : js[i].job_id \notin ids => js2[i].status = js[i].status

\* n clock ticks one after the other: the ids promoted, call by call
RECURSIVE TickTimes(_, _)
TickTimes(st, n) ==
    IF n = 0 THEN st
    ELSE LET o == GetManyOut(st.var_store, st.jobs, st.queued, InList, FALSE, clock)
         IN  TickTimes([var_store |-> o.var_store, jobs |-> o.jobs, queued |-> o.queued,
                        calls |-> Append(st.calls, o.promoted)], n - 1)

Ticks(n) ==
    TickTimes([var_store |-> var_store, jobs |-> jobs, queued |-> queued,
               calls |-> <<>>], n)

(***************************************************************************)
(* C5: in clock-tick mode (get_many without consume_jobs) each call        *)
(* promotes at most one job, the head of the pending queue, from queued to *)
(* running, and changes no other job; on an empty pending queue it         *)
(* promotes nothing.  With N jobs pending, N calls in a row promote the N  *)
(* jobs one per call in submission order, and one more call promotes none. *)
(***************************************************************************)
C5_ClockTickPromotesHead ==
    Idle =>
        /\ InSubmissionOrder(queued)
        /\ \A data \in DataChoices :
               IF queued = <<>>
               THEN /\ ClockTick(data).promoted = <<>>
                    /\ ClockTick(data).jobs = jobs
                    /\ ClockTick(data).queued = queued
               ELSE /\ ClockTick(data).promoted = <<Head(queued)>>
                    /\ ClockTick(data).queued = Tail(queued)
                    /\ StatusOf(jobs, Head(queued)) = "queued"
                    /\ StatusOf(ClockTick(data).jobs, Head(queued)) = "running"
                    /\ OnlyChanged(jobs, ClockTick(data).jobs, {Head(queued)})
        /\ LET after == Ticks(Len(queued) + 1)
           IN  /\ after.calls = [i \in 1..(Len(queued) + 1) |->
                                     IF i <= Len(queued) THEN <<queued[i]>> ELSE <<>>]
               /\ after.queued = <<>>
               /\ \A i \in 1..Len(queued) : StatusOf(after.jobs, queued[i]) = "running"
               /\ OnlyChanged(jobs, after.jobs, SeqToSet(queued))

\* A clock tick has just promoted the older of two pending jobs and left
\* the younger pending
C5_Witness ==
    /\ last.op = "get_many"
    /\ last.kind = "tick"
    /\ Len(last.ids) = 1
    /\ queued # <<>>
    /\ JobIdx(jobs, last.ids[1]) < JobIdx(jobs, queued[1])
    /\ StatusOf(jobs, last.ids[1]) = "running"
    /\ StatusOf(jobs, queued[1]) = "queued"

(***************************************************************************)
(* C6: get_many with consume_jobs on a non-empty pending queue pops every  *)
(* pending job, marks each running, leaves the queue empty and returns the *)
(* jobs' input snapshots as a list in submission order; on an empty        *)
(* pending queue it returns the name -> value dict and changes no job.     *)
(***************************************************************************)
C6_ConsumeDrainsAll ==
    Idle =>
        /\ InSubmissionOrder(queued)
        /\ \A data \in DataChoices :
               IF queued # <<>>
               THEN /\ Consume(data).kind = "list"
                    /\ Consume(data).batch
                           = [i \in 1..Len(queued) |-> JobOf(jobs, queued[i]).inputs]
                    /\ Consume(data).queued = <<>>
                    /\ \A i \in 1..Len(queued) :
                           /\ StatusOf(jobs, queued[i]) = "queued"
                           /\ StatusOf(Consume(data).jobs, queued[i]) = "running"
                    /\ OnlyChanged(jobs, Consume(data).jobs, SeqToSet(queued))
               ELSE /\ Consume(data).kind = "dict"
                    /\ DOMAIN Consume(data).values = SeqToSet(data) \cap VarNames
                    /\ \A n \in DOMAIN Consume(data).values :
                           Consume(data).values[n] = [value |-> var_store[n]]
                    /\ Consume(data).jobs = jobs
                    /\ Consume(data).queued = queued

\* A consuming get_many has just promoted two pending jobs at once
C6_Witness ==
    /\ last.op = "get_many"
    /\ last.kind = "consume"
    /\ Len(last.ids) = 2
    /\ queued = <<>>
    /\ \A i \in 1..2 : StatusOf(jobs, last.ids[i]) = "running"
    /\ JobOf(jobs, last.ids[1]).inputs # JobOf(jobs, last.ids[2]).inputs

(***************************************************************************)
(* C7: when a clock-tick get_many promotes job J, then at the end of the   *)
(* call the store holds J's snapshot value (the one the ledger has kept    *)
(* since J's admission) for every variable in J's inputs, and the values   *)
(* the call returns for those variables are the snapshot's, whatever later *)
(* submissions or writes did to the store in between.                      *)
(***************************************************************************)
C7_TickRestoresSnapshot ==
    (Idle /\ queued # <<>>) =>
        \A data \in DataChoices :
            LET J == JobOf(jobs, Head(queued))
                o == ClockTick(data)
            IN  /\ JobOf(o.jobs, J.job_id).inputs = J.inputs
                /\ \A v \in DOMAIN J.inputs :
                       /\ o.var_store[v] = J.inputs[v].value
                       /\ v \in SeqToSet(data) =>
                              /\ v \in DOMAIN o.values
                              /\ o.values[v].value = J.inputs[v].value
                /\ \A v \in VarNames \ DOMAIN J.inputs : o.var_store[v] = var_store[v]

\* A clock tick has just promoted a job whose value of A a later submission
\* had overwritten in the store, and the store holds the job's value again
C7_Witness ==
    /\ last.op = "get_many"
    /\ last.kind = "tick"
    /\ Len(last.ids) = 1
    /\ \E k \in 1..Len(jobs) :
           /\ k > JobIdx(jobs, last.ids[1])
           /\ "A" \in DOMAIN jobs[k].inputs
           /\ jobs[k].inputs["A"].value # JobOf(jobs, last.ids[1]).inputs["A"].value
    /\ var_store["A"] = JobOf(jobs, last.ids[1]).inputs["A"].value

TracesOf(data) == {data[i].trace : i \in 1..Len(data)} \ {NoId}

\* From js to js2 job J became completed, and every other job kept its
\* status or was evicted from completed to failed
CompletedExactly(js, js2, J) ==
    /\ Len(js2) = Len(js)
    /\ StatusOf(js, J) = "running"
    /\ StatusOf(js2, J) = "completed"
    /\ \A i \in 1..Len(js) :
           js[i].job_id # J =>
               \/ js2[i].status = js[i].status
               \/ js[i].status = "completed" /\ js2[i].status = "failed"

RunningIds == {jobs[i].job_id : i \in {k \in 1..Len(jobs) : jobs[k].status = "running"}}

\* the running job earliest in the ledger
EarliestRunning(js) ==
    js[CHOOSE i \in 1..Len(js) :
           js[i].status = "running" /\ \A k \in 1..(i - 1) : js[k].status # "running"].job_id

\* n put_many calls with the same data one after the other: the job each
\* one completed (NoId for none), call by call
RECURSIVE PutTimes(_, _, _)
PutTimes(st, data, n) ==
    IF n = 0 THEN st
    ELSE LET o == PutManyOut(st.var_store, st.jobs, st.completed, data, clock)
         IN  PutTimes([var_store |-> o.var_store, jobs |-> o.jobs,
                       completed |-> o.completed,
                       calls |-> Append(st.calls, IF o.done THEN o.job_id ELSE NoId),
                       expect |-> Append(st.expect,
                                         IF \E i \in 1..Len(st.jobs) :
                                                st.jobs[i].status = "running"
                                         THEN EarliestRunning(st.jobs) ELSE NoId)],
                      data, n - 1)

Puts(data, n) ==
    PutTimes([var_store |-> var_store, jobs |-> jobs, completed |-> completed,
              calls |-> <<>>, expect |-> <<>>], data, n)

(***************************************************************************)
(* C9: a put_many without any trace id completes exactly one job, the      *)
(* running job that was submitted earliest, and no other; with k jobs      *)
(* running, k such calls in a row complete them in submission order; with  *)
(* no job running it changes no job.                                       *)
(***************************************************************************)
C9_UntaggedCompletesOldest ==
    Idle => \A data \in PutData :
                TracesOf(data) = {} =>
                    /\ IF RunningIds = {}
                       THEN /\ Complete(data).jobs = jobs
                            /\ Complete(data).completed = completed
                       ELSE CompletedExactly(jobs, Complete(data).jobs,
                                             EarliestRunning(jobs))
                    /\ LET after == Puts(data, Cardinality(RunningIds) + 1)
                       IN  /\ after.calls = after.expect
                           /\ Distinct(SubSeq(after.calls, 1, Cardinality(RunningIds)))
                           /\ SeqToSet(SubSeq(after.calls, 1, Cardinality(RunningIds)))
                                  = RunningIds
                           /\ \A i, j \in 1..Cardinality(RunningIds) :
                                  i < j => JobIdx(jobs, after.calls[i])
                                               < JobIdx(jobs, after.calls[j])
                           /\ after.calls[Cardinality(RunningIds) + 1] = NoId

\* An untagged put_many has just completed the oldest running job while a
\* job submitted after it is still running
C9_Witness ==
    /\ last.op = "put_many"
    /\ last.kind = "fifo"
    /\ last.jid # NoId
    /\ StatusOf(jobs, last.jid) = "completed"
    /\ \E k \in 1..Len(jobs) :
           k > JobIdx(jobs, last.jid) /\ jobs[k].status = "running"

(***************************************************************************)
(* C10: in every reachable state the completed queue holds at most         *)
(* output_queue_max job ids.                                               *)
(***************************************************************************)
C10_CompletedQueueBounded == Len(completed) <= OutputQueueMax

\* A completion has just evicted a job from a full completed queue
C10_Witness ==
    /\ last.op = "put_many"
    /\ last.jid # NoId
    /\ last.ids # <<>>
    /\ Len(completed) = OutputQueueMax


\* The completion put_many(data) performs overflows the completed queue
Overflows(data) ==
    Complete(data).done /\ Len(completed) + 1 > OutputQueueMax

(***************************************************************************)
(* C11: when a completion makes the completed queue longer than            *)
(* output_queue_max, the job evicted is the one at the head of the         *)
(* completed queue; it leaves the completed queue, its status becomes      *)
(* failed and its error is the output-queue-overflow reason; apart from it *)
(* and the job being completed no job changes, and the call raises         *)
(* nothing.  A completion that does not overflow evicts nothing.           *)
(***************************************************************************)
C11_EvictionTakesHead ==
    Idle => \A data \in PutData :
                LET o == Complete(data)
                IN  IF Overflows(data)
                    THEN /\ o.evicted = <<Head(completed)>>
                         /\ o.completed = Append(Tail(completed), o.job_id)
                         /\ StatusOf(jobs, Head(completed)) = "completed"
                         /\ StatusOf(o.jobs, Head(completed)) = "failed"
                         /\ JobOf(o.jobs, Head(completed)).error = EvictedError
                         /\ StatusOf(o.jobs, o.job_id) = "completed"
                         /\ Len(o.jobs) = Len(jobs)
                         /\ \A i \in 1..Len(jobs) :
                                jobs[i].job_id \notin {Head(completed), o.job_id}
                                    => o.jobs[i] = jobs[i]
                    ELSE /\ o.evicted = <<>>
                         /\ \A i \in 1..Len(jobs) : o.jobs[i].error = jobs[i].error

\* A put_many has just returned normally after evicting the job at the head
\* of a full completed queue: that job is failed with the overflow reason
\* and the job completed after it is still in the queue
C11_Witness ==
    /\ last.op = "put_many"
    /\ last.status = 200
    /\ Len(last.ids) = 1
    /\ StatusOf(jobs, last.ids[1]) = "failed"
    /\ JobOf(jobs, last.ids[1]).error = EvictedError
    /\ last.ids[1] \notin SeqToSet(completed)
    /\ Len(completed) = OutputQueueMax
    /\ completed[Len(completed)] = last.jid

\* What one step may do to the ledger record at position i
StatusStep(i) ==
    IF i > Len(jobs)
    THEN /\ jobs'[i].status = "queued"
         /\ last'.op = "enqueue"
    ELSE /\ jobs'[i].job_id = jobs[i].job_id
         /\ \/ jobs'[i].status = jobs[i].status
            \/ /\ jobs[i].status = "queued"
               /\ jobs'[i].status = "running"
               /\ last'.op = "get_many"
               /\ jobs[i].job_id \in SeqToSet(last'.ids)
            \/ /\ jobs[i].status = "running"
               /\ jobs'[i].status = "completed"
               /\ last'.op = "put_many"
               /\ last'.jid = jobs[i].job_id
            \/ /\ jobs[i].status = "completed"
               /\ jobs'[i].status = "failed"
               /\ last'.op = "put_many"
               /\ completed # <<>>
               /\ Head(completed) = jobs[i].job_id
               /\ jobs[i].job_id \in SeqToSet(last'.ids)

(***************************************************************************)
(* C12: a job's status changes only along queued -> running -> completed   *)
(* -> failed.  Every step keeps the ledger's records in place, gives a new *)
(* record the status queued, and either leaves a job's status unchanged or *)
(* moves it one step along the chain: to running only in a get_many that   *)
(* promotes it, to completed only in a put_many that resolves to it, to    *)
(* failed only in a put_many that evicts it from the head of the completed *)
(* queue.  A failed job therefore stays failed.                            *)
(***************************************************************************)
C12_StatusChain ==
    [][/\ Len(jobs') >= Len(jobs)
       /\ \A i \in 1..Len(jobs') : StatusStep(i)]_vars

\* A job has been through the whole chain and is failed, and a put_many
\* carrying a trace id has since returned without moving any job
C12_Witness ==
    /\ last.op = "put_many"
    /\ last.kind = "trace"
    /\ last.jid = NoId
    /\ last.ids = <<>>
    /\ \E i \in 1..Len(jobs) : jobs[i].status = "failed"
    /\ \E i \in 1..Len(jobs) : jobs[i].status = "completed"

\* jid is in neither queue
Unqueued(q, comp, jid) == jid \notin SeqToSet(q) /\ jid \notin SeqToSet(comp)

\* C13 as stated: a job in neither queue is running or failed
C13_Original ==
    \A i \in 1..Len(jobs) :
        Unqueued(queued, completed, jobs[i].job_id)
            => jobs[i].status \in {"running", "failed"}

(***************************************************************************)
(* C13 (amended): after every step a job that is in neither the pending    *)
(* queue nor the completed queue has status running, failed or completed;  *)
(* it is completed only if GET /jobs/next has handed it out, in this step  *)
(* or an earlier one: the poll removes the id from the completed queue and *)
(* leaves the status completed, and the job stays so.                      *)
(***************************************************************************)
C13_UnqueuedJobStatus ==
    [][\A i \in 1..Len(jobs') :
           LET jid == jobs'[i].job_id
               was_polled ==
                   /\ i <= Len(jobs)
                   /\ jobs[i].status = "completed"
                   /\ Unqueued(queued, completed, jid)
           IN  /\ Unqueued(queued', completed', jid) =>
                      \/ jobs'[i].status \in {"running", "failed"}
                      \/ /\ jobs'[i].status = "completed"
                         /\ \/ was_polled
                            \/ last'.op = "jobs_next" /\ last'.jid = jid
               /\ (last'.op = "jobs_next" /\ last'.jid = jid) =>
                      /\ Unqueued(queued', completed', jid)
                      /\ jobs'[i].status = "completed"
               /\ was_polled =>
                      /\ Unqueued(queued', completed', jid)
                      /\ jobs'[i].status = "completed"]_vars

\* GET /jobs/next has just handed out a job: it is in neither queue and its
\* status is completed
C13_Witness ==
    /\ last.op = "jobs_next"
    /\ last.status = 200
    /\ last.jid \in JobIds(jobs)
    /\ Unqueued(queued, completed, last.jid)
    /\ StatusOf(jobs, last.jid) = "completed"

\* The ids of the jobs with the given status
WithStatus(s) == {jobs[i].job_id : i \in {k \in 1..Len(jobs) : jobs[k].status = s}}

\* s2 is what is left of s after dropping ids from its head
IsSuffix(s2, s) ==
    Len(s2) <= Len(s) /\ s2 = SubSeq(s, Len(s) - Len(s2) + 1, Len(s))

(***************************************************************************)
(* C14: in every reachable state the pending queue holds exactly the jobs  *)
(* whose status is queued, in submission order, and every id in the        *)
(* completed queue is that of a job whose status is completed, in          *)
(* completion order (a completion puts its job at the tail, behind the ids *)
(* already there; polls and evictions take ids from the head); no id is in *)
(* both queues and none occurs twice in either.                            *)
(***************************************************************************)
C14_QueuesMatchStatus ==
    /\ SeqToSet(queued) = WithStatus("queued")
    /\ InSubmissionOrder(queued)
    /\ Distinct(queued)
    /\ SeqToSet(completed) \subseteq WithStatus("completed")
    /\ Distinct(completed)
    /\ SeqToSet(queued) \cap SeqToSet(completed) = {}
    /\ Idle =>
           /\ \A data \in PutData :
                  LET o == Complete(data)
                  IN  IF o.done
                      THEN /\ o.completed # <<>>
                           /\ o.completed[Len(o.completed)] = o.job_id
                           /\ IsSuffix(SubSeq(o.completed, 1, Len(o.completed) - 1),
                                       completed)
                      ELSE o.completed = completed
           /\ IsSuffix(NextCompletedOut(completed).completed, completed)

\* One job waits in the pending queue, one is running and one, completed,
\* waits in the completed queue
C14_Witness ==
    /\ Len(queued) = 1
    /\ Len(completed) = 1
    /\ Len(jobs) = 3
    /\ WithStatus("running") # {}
    /\ StatusOf(jobs, queued[1]) = "queued"
    /\ StatusOf(jobs, completed[1]) = "completed"

\* The names put_many(data) writes: declared, and their value coerces
Written(data) ==
    {k \in 1..Len(data) :
         data[k].name \in VarNames /\ CoerceForType(data[k].name, data[k].value).ok}

(***************************************************************************)
(* C15: a put_many that resolves to a running job J writes its values      *)
(* before it takes the output snapshot: after the call J is completed, J's *)
(* id is at the tail of the completed queue, J.outputs has an entry for    *)
(* every output variable, for an output variable the call wrote the entry  *)
(* holds the (coerced) value written, and for any other output variable    *)
(* the value the store held before the call.                               *)
(***************************************************************************)
C15_OutputsHoldWrittenValues ==
    Idle => \A data \in PutData :
                LET o == Complete(data)
                    J == JobOf(o.jobs, o.job_id)
                IN  o.done =>
                        /\ StatusOf(jobs, o.job_id) = "running"
                        /\ J.status = "completed"
                        /\ o.completed[Len(o.completed)] = o.job_id
                        /\ DOMAIN J.outputs = SeqToSet(OutList)
                        /\ \A k \in Written(data) :
                               data[k].name \in SeqToSet(OutList) =>
                                   J.outputs[data[k].name].value
                                       = CoerceForType(data[k].name, data[k].value).value
                        /\ \A v \in SeqToSet(OutList) :
                               v \notin {data[k].name : k \in Written(data)} =>
                                   J.outputs[v].value = var_store[v]

\* A put_many has just completed a job with a value of X it wrote itself,
\* different from the value the store held at the start
C15_Witness ==
    /\ last.op = "put_many"
    /\ last.jid # NoId
    /\ StatusOf(jobs, last.jid) = "completed"
    /\ completed # <<>>
    /\ completed[Len(completed)] = last.jid
    /\ JobOf(jobs, last.jid).outputs["X"].value = FloatV(2)
    /\ \A i \in 1..Len(jobs) :
           jobs[i].job_id # last.jid => jobs[i].status \in {"queued", "running"}

\* Values a caller may hand to put, beyond those the steps draw
WrittenValues ==
    PutValues \cup {FloatV(3), BoolV(1), StrListV(<<7, 8>>), NdArray(<<7, 8>>),
                    ListV(<<7, 8, 9>>), List2V(1, 2, <<3, 4>>), List2V(2, 1, <<3, 4>>),
                    List2V(2, 2, <<1, 2, 3, 4>>)}

\* The values of the declared type, length and shape of a variable, with
\* what the store holds once they are written
Acceptable(name) ==
    CASE name \in {"A", "X"} ->
             {<<IntV(2), FloatV(2)>>, <<FloatV(3), FloatV(3)>>, <<BoolV(1), BoolV(1)>>}
      [] name = "B" ->
             {<<ListV(<<7, 8>>), NdArray(<<7, 8>>)>>, <<NdArray(<<7, 8>>), NdArray(<<7, 8>>)>>}
      [] name = "I" ->
             {<<List2V(1, 2, <<0, 0>>), NdArray2(1, 2, <<0, 0>>)>>,
              <<List2V(1, 2, <<3, 4>>), NdArray2(1, 2, <<3, 4>>)>>}
      [] OTHER -> {}

\* put(name, value, enforce_mode) is to be rejected
Rejected(name, value, enforce) ==
    \/ name \notin VarNames
    \/ enforce /\ VarMeta[name].mode = "out"
    \/ value \notin {a[1] : a \in Acceptable(name)}

(***************************************************************************)
(* C16: a put that is rejected (unknown name, mode-out variable with       *)
(* enforcement on, value of the wrong type, array of the wrong length or   *)
(* image of the wrong shape) raises its error and leaves every value of    *)
(* the store, the target's included, as it was; a put that is accepted     *)
(* raises nothing, stores the coerced value in the target and changes no   *)
(* other variable.                                                         *)
(***************************************************************************)
C16_RejectedPutChangesNothing ==
    Idle => \A name \in AllNames, value \in WrittenValues, enforce \in BOOLEAN :
                LET o == PutOut(var_store, name, value, enforce)
                IN  IF Rejected(name, value, enforce)
                    THEN /\ o.exc \in {"KeyError", "PermissionError", "TypeError",
                                       "ValueError"}
                         /\ o.var_store = var_store
                    ELSE /\ o.exc = ""
                         /\ <<value, o.var_store[name]>> \in Acceptable(name)
                         /\ \A n \in VarNames \ {name} : o.var_store[n] = var_store[n]

\* A put has just been refused with a ValueError (wrong length or shape)
\* after an earlier call had changed the store: A and B hold the values
\* that call wrote
C16_Witness ==
    /\ last.op = "put"
    /\ last.kind = "ValueError"
    /\ var_store["A"] = FloatV(2)
    /\ var_store["B"] = NdArray(<<7, 8>>)
    /\ jobs = <<>>

OutNames == {n \in VarNames : VarMeta[n].mode = "out"}

\* Entry k of job i of batch b names a mode-out variable
OutVariableAt(b, i, k) == b[i].variables[k].name \in OutNames

\* A check that _enqueue_jobs makes before it reaches entry k of job i fails
FailsEarlier(b, i, k) ==
    \/ \E j \in 1..(i - 1) : InvalidJob(b, j)
    \/ DuplicateId(b, i)
    \/ \E m \in 1..(k - 1) :
           LET e == b[i].variables[m]
           IN  e.name \notin VarNames \/ ~CoerceForType(e.name, e.value).ok

\* put and the mode of its target
PutModeRule ==
    /\ \A name \in OutNames, value \in WrittenValues :
           /\ PutOut(var_store, name, value, TRUE).exc = "PermissionError"
           /\ PutOut(var_store, name, value, TRUE).var_store = var_store
           /\ \A a \in Acceptable(name) :
                  /\ PutOut(var_store, name, a[1], FALSE).exc = ""
                  /\ PutOut(var_store, name, a[1], FALSE).var_store
                         = [var_store EXCEPT ![name] = a[2]]
    /\ \A name \in VarNames \ OutNames, value \in WrittenValues :
           /\ PutOut(var_store, name, value, TRUE).exc # "PermissionError"
           /\ PutOut(var_store, name, value, TRUE) = PutOut(var_store, name, value, FALSE)

\* C17 as stated: a submission naming a mode-out variable is answered 403
C17_Original ==
    Idle => /\ PutModeRule
            /\ \A b \in Batches : \A i \in 1..Len(b) :
                   \A k \in 1..Len(b[i].variables) :
                       OutVariableAt(b, i, k) => Admit(b).status = 403

(***************************************************************************)
(* C17 (amended): put on a mode-out variable fails with PermissionError    *)
(* whatever the value when mode enforcement is on, and with                *)
(* enforce_mode=false stores an acceptable value; put on a variable of     *)
(* mode in or inout is never refused for its mode and behaves the same     *)
(* with and without enforcement; a submission naming a mode-out variable   *)
(* is always rejected as a whole, with HTTP 403 unless a check made        *)
(* earlier fails (an earlier job of the batch, the job's id, an earlier    *)
(* variable of the job), whose error is raised instead.                    *)
(***************************************************************************)
C17_ModeEnforcement ==
    Idle => /\ PutModeRule
            /\ \A b \in Batches : \A i \in 1..Len(b) :
                   \A k \in 1..Len(b[i].variables) :
                       OutVariableAt(b, i, k) =>
                           /\ Admit(b).status \in ValidationErrors
                           /\ NothingAdmitted(Admit(b))
                           /\ ~FailsEarlier(b, i, k) => Admit(b).status = 403

\* A put on the mode-out variable has just been refused with
\* PermissionError; the variable holds a value written earlier, which the
\* refusal left in place
C17_Witness ==
    /\ last.op = "put"
    /\ last.kind = "PermissionError"
    /\ var_store["X"] = FloatV(2)
    /\ jobs = <<>>

\* _enqueue_jobs called in the current state, the handler raising at the
\* calls in raises
AdmitMonitored(b, raises) ==
    EnqueueJobs(var_store, jobs, queued, b, clock, monitor_callback, raises)

(***************************************************************************)
(* C18: with an observer registered, a batch that is valid and fits is     *)
(* admitted whatever the observer does, and the observer is called exactly *)
(* once per admitted job, in batch order, with that job's input snapshot,  *)
(* when every job of the batch is in the ledger; a call that raises        *)
(* neither makes the submission fail nor undoes an admission nor keeps the *)
(* later calls from being made.  A rejected batch makes no call, and       *)
(* without an observer none is made.                                       *)
(***************************************************************************)
C18_ObserverCalledPerJob ==
    Idle => \A b \in Batches : \A raises \in RaiseChoices(monitor_callback, b) :
                LET o == AdmitMonitored(b, raises)
                IN  IF InvalidBatch(b) \/ OverCapacity(b)
                    THEN /\ o.status # 200
                         /\ o.calls = <<>>
                         /\ NothingAdmitted(o)
                    ELSE /\ o.status = 200
                         /\ AppendedInOrder(b, o)
                         /\ \A i \in 1..Len(b) : AdmittedAsQueued(b, o, i)
                         /\ IF monitor_callback = NoHandler
                            THEN o.calls = <<>>
                            ELSE /\ Len(o.calls) = Len(b)
                                 /\ \A i \in 1..Len(b) :
                                        /\ o.calls[i].job_id = o.accepted[i].job_id
                                        /\ o.calls[i].snapshot
                                               = JobOf(o.jobs, o.accepted[i].job_id).inputs
                                        /\ o.calls[i].raised = (i \in raises)
                                        /\ \A j \in 1..Len(b) :
                                               o.accepted[j].job_id \in o.calls[i].known

\* A batch of two jobs has just been admitted with an observer registered:
\* the observer raised for the first job, was called for the second all the
\* same, and both jobs wait in the pending queue
C18_Witness ==
    /\ last.op = "enqueue"
    /\ last.status = 200
    /\ monitor_callback # NoHandler
    /\ Len(last.calls) = 2
    /\ last.calls[1].raised
    /\ ~last.calls[2].raised
    /\ <<last.calls[1].job_id, last.calls[2].job_id>> = last.ids
    /\ queued = last.ids

\* The shared state a call made alone, as one step, would have left, given
\* the state the thread found when it took the lock; and what it would
\* have returned
Serial(t) ==
    LET f == threads.loc[t]
        st == f.start
    IN  CASE f.op = "enqueue" ->
                 LET o == EnqueueJobsOut(st.var_store, st.jobs, st.queued, f.input, clock)
                 IN  /\ Shared = [st EXCEPT !.var_store = o.var_store, !.jobs = o.jobs,
                                            !.queued = o.queued]
                     /\ f.status = o.status
          [] f.op = "get_vars" ->
                 /\ Shared = st
                 /\ f.obs = [k \in 1..Len(f.obs) |-> st.var_store[f.input[k]]]
                 /\ f.status = 200 <=> SeqToSet(f.input) \subseteq VarNames
                 /\ f.status = 200 => Len(f.obs) = Len(f.input)
          [] f.op = "jobs_next" ->
                 LET o == NextCompletedOut(st.completed)
                 IN  /\ Shared = [st EXCEPT !.completed = o.completed]
                     /\ f.status = o.status
                     /\ o.status = 200 => f.obs = <<JobOf(st.jobs, o.jid)>>
          [] f.op = "get_job" ->
                 /\ Shared = st
                 /\ IF f.jid \in JobIds(st.jobs) THEN f.obs = <<JobOf(st.jobs, f.jid)>>
                    ELSE f.status = 404
          [] f.op = "get_many" ->
                 LET o == GetManyOut(st.var_store, st.jobs, st.queued, f.input, f.flag,
                                     clock)
                 IN  /\ Shared = [st EXCEPT !.var_store = o.var_store, !.jobs = o.jobs,
                                            !.queued = o.queued]
                     /\ f.popped = o.promoted
                     /\ f.obs = IF o.kind = "list" THEN o.batch ELSE <<o.values>>
          [] f.op = "put_many" ->
                 LET o == PutManyOut(st.var_store, st.jobs, st.completed, f.input, clock)
                 IN  /\ Shared = [st EXCEPT !.var_store = o.var_store, !.jobs = o.jobs,
                                            !.completed = o.completed]
                     /\ f.popped = o.evicted
          [] OTHER -> FALSE

\* A batch is part in, part out: a submitter is between the first write of
\* the commit loop and the last append to the pending queue
MidCommit(t) == threads.pc[t] \in {"commit_var", "ledger", "queue"}

Posted == pv.op = "put" /\ pv.exc = "" /\ pv.value.t = "float"

\* The band the posted value falls into, testing them in the order
\* LOLO, LOW, HIHI, HIGH (first match wins, comparisons inclusive)
BandOf(x, policy) ==
    IF x <= policy.lowAlarmLimit THEN "LOLO"
    ELSE IF x <= policy.lowWarningLimit THEN "LOW"
    ELSE IF x >= policy.highAlarmLimit THEN "HIHI"
    ELSE IF x >= policy.highWarningLimit THEN "HIGH"
    ELSE ""

SeverityOf(band, policy) ==
    CASE band = "LOLO" -> policy.lowAlarmSeverity
      [] band = "LOW" -> policy.lowWarningSeverity
      [] band = "HIHI" -> policy.highAlarmSeverity
      [] band = "HIGH" -> policy.highWarningSeverity
      [] OTHER -> 0

StatusOfBand(band) ==
    CASE band = "LOLO" -> 5
      [] band = "LOW" -> 6
      [] band = "HIHI" -> 3
      [] band = "HIGH" -> 4
      [] OTHER -> 0

AtALimit(x, policy) ==
    x \in {policy.lowAlarmLimit, policy.lowWarningLimit,
           policy.highWarningLimit, policy.highAlarmLimit}

\* Limits (-5, -2, 2, 5) with the default severities
ExamplePolicy ==
    [lowAlarmLimit |-> -5, lowWarningLimit |-> -2,
     highWarningLimit |-> 2, highAlarmLimit |-> 5,
     lowAlarmSeverity |-> DEFAULT_ALARM_SEVERITIES.lowAlarmSeverity,
     lowWarningSeverity |-> DEFAULT_ALARM_SEVERITIES.lowWarningSeverity,
     highWarningSeverity |-> DEFAULT_ALARM_SEVERITIES.highWarningSeverity,
     highAlarmSeverity |-> DEFAULT_ALARM_SEVERITIES.highAlarmSeverity]

ExampleResults ==
    pv.policy = ExamplePolicy =>
        /\ pv.value = FloatV(6) => pv.alarm = [severity |-> 2, status |-> 3, message |-> "HIHI"]
        /\ pv.value = FloatV(-3) => pv.alarm = [severity |-> 1, status |-> 6, message |-> "LOW"]
        /\ pv.value = FloatV(0) => pv.alarm = [severity |-> 0, status |-> 0, message |-> ""]

\* C20 as stated: the band of the value is what is reported, whatever its
\* severity, and a value equal to a limit is never reported as normal.
C20_Original ==
    Posted =>
        LET x == pv.value.v[1]
            band == BandOf(x, pv.policy)
        IN  /\ pv.alarm.message = band
            /\ pv.alarm.status = StatusOfBand(band)
            /\ pv.alarm.severity = SeverityOf(band, pv.policy)
            /\ AtALimit(x, pv.policy) => pv.alarm.message # ""
            /\ ExampleResults

(***************************************************************************)
(* C20: the alarm posted with a written number is that of the first band   *)
(* the number matches in the order value <= lowAlarmLimit (LOLO),          *)
(* value <= lowWarningLimit (LOW), value >= highAlarmLimit (HIHI),         *)
(* value >= highWarningLimit (HIGH), all comparisons inclusive, provided   *)
(* that band's configured severity is not 0: then the band's severity,     *)
(* status and message are reported, so a value equal to a limit is in a    *)
(* band and, when limits coincide, a value satisfying a low and a high     *)
(* condition is in the low band.  If the matched band's severity is 0, or  *)
(* no band matches, the result is the normal triple (0, NO_ALARM, "").     *)
(* With limits (-5,-2,2,5) and default severities, 6 gives (2, HIHI),      *)
(* -3 gives (1, LOW) and 0 gives the normal triple.                        *)
(***************************************************************************)
C20_BandOrder ==
    Posted =>
        LET x == pv.value.v[1]
            band == BandOf(x, pv.policy)
            severity == SeverityOf(band, pv.policy)
        IN  /\ severity # 0 =>
                pv.alarm = [severity |-> severity, status |-> StatusOfBand(band),
                            message |-> band]
            /\ severity = 0 => pv.alarm = [severity |-> 0, status |-> 0, message |-> ""]
            /\ AtALimit(x, pv.policy) => band # ""
            /\ (x <= pv.policy.lowWarningLimit /\ x >= pv.policy.highWarningLimit) =>
                   band \in {"LOLO", "LOW"}
            /\ ExampleResults

\* All four limits coincide at 2 and 2 has been written: it satisfies the
\* LOLO and the HIHI condition and is reported as LOLO
C20_Witness ==
    /\ Posted
    /\ pv.policy.lowAlarmLimit = 2
    /\ pv.policy.highAlarmLimit = 2
    /\ pv.policy.lowAlarmSeverity = 3
    /\ pv.policy.highAlarmSeverity = 2
    /\ pv.value = FloatV(2)
    /\ pv.alarm = [severity |-> 3, status |-> 5, message |-> "LOLO"]

\* The severity compute_alarm selects for the value the PV holds: that of
\* the first matching band, 0 if none matches (no band matches NaN)
SelectedSeverity ==
    IF pv.value.t = "float"
    THEN SeverityOf(BandOf(pv.value.v[1], pv.policy), pv.policy)
    ELSE 0

\* The alarm the PV carries was computed for the value it holds
Computed == pv.op \in {"open", "put"}

(***************************************************************************)
(* C21: whenever the severity selected for the PV's value is 0, also when  *)
(* a band matched whose severity is configured as 0, the alarm is exactly  *)
(* (severity 0, status NO_ALARM, message empty); and in every computed     *)
(* alarm severity = 0 iff status = NO_ALARM iff the message is empty.      *)
(***************************************************************************)
C21_SeverityZeroIsNormal ==
    Computed =>
        /\ SelectedSeverity = 0 =>
               pv.alarm = [severity |-> 0, status |-> 0, message |-> ""]
        /\ pv.alarm.severity = 0 <=> pv.alarm.status = 0
        /\ pv.alarm.status = 0 <=> pv.alarm.message = ""

\* A value at or below a low alarm limit whose severity is configured as 0
\* (while the other severities are not) has been written, and the PV
\* carries the normal triple
C21_Witness ==
    /\ Posted
    /\ pv.policy.lowAlarmSeverity = 0
    /\ pv.policy.lowWarningSeverity = 1
    /\ pv.policy.highAlarmSeverity = 2
    /\ pv.value.v[1] <= pv.policy.lowAlarmLimit
    /\ pv.alarm = [severity |-> 0, status |-> 0, message |-> ""]

\* normalise_variable_settings has run on the configuration
Normalised == settings.op = "normalised"

\* The configuration asks for alarm computation
AsksComputeAlarm ==
    /\ "compute_alarm" \in DOMAIN settings.pv_cfg
    /\ settings.pv_cfg.compute_alarm \in {BoolV(1), IntV(1)}

\* The configuration's valueAlarm block, an empty dict if it has none
ValueAlarmBlock ==
    LET given == DictGet(settings.pv_cfg, "valueAlarm", NoneV)
    IN  IF given.kind = "dict" THEN given.d ELSE EmptyDict

\* The configuration with `active: true` written into its valueAlarm block
WithActiveTrue ==
    DictMerge(settings.pv_cfg,
              [valueAlarm |-> DictV(DictMerge(ValueAlarmBlock, [active |-> BoolV(1)]))])

\* The settings made and the policy in them
MadeSettings == settings.result.settings.d

MadePolicy == MadeSettings.alarm_policy

(***************************************************************************)
(* C22: a configuration with compute_alarm=true whose valueAlarm block     *)
(* gives the four limits but has no `active` key, and which is in order    *)
(* otherwise (it is accepted once `active: true` is written in), is        *)
(* accepted: the settings' valueAlarm has active = true and the alarm      *)
(* policy is not None.                                                     *)
(***************************************************************************)
C22_MissingActiveDefaultsTrue ==
    (/\ Normalised
     /\ AsksComputeAlarm
     /\ SeqToSet(ALARM_LIMIT_FIELDS) \subseteq DOMAIN ValueAlarmBlock
     /\ "active" \notin DOMAIN ValueAlarmBlock
     /\ NormaliseVariableSettings(WithActiveTrue).exc = "")
        => /\ settings.result.exc = ""
           /\ DictGet(MadeSettings.valueAlarm.d, "active", PyNone) = BoolV(1)
           /\ MadePolicy.kind = "dict"

\* The type the configuration declares (scalar when it declares none)
DeclaredType == DictGet(settings.pv_cfg, "type", "scalar")

\* The configuration has no valueAlarm block
NoValueAlarmBlock == DictGet(settings.pv_cfg, "valueAlarm", NoneV).kind = "None"

\* normalise_variable_settings raised: no settings, hence no policy
RaisedNoPolicy == settings.result.exc # "" /\ settings.result.settings = NoneV

(***************************************************************************)
(* C23: a configuration with compute_alarm=true is rejected with an error  *)
(* and no policy is produced when the type is not scalar, when there is no *)
(* valueAlarm block, when valueAlarm.active is explicitly false, or when   *)
(* one of the four limits is missing; with compute_alarm false or absent   *)
(* an accepted configuration has no alarm policy.                          *)
(***************************************************************************)
C23_ComputeAlarmRejections ==
    Normalised =>
        /\ (/\ AsksComputeAlarm
            /\ \/ DeclaredType # "scalar"
               \/ NoValueAlarmBlock
               \/ DictGet(ValueAlarmBlock, "active", PyNone) = BoolV(0)
               \/ ~(SeqToSet(ALARM_LIMIT_FIELDS) \subseteq DOMAIN ValueAlarmBlock))
           => RaisedNoPolicy
        /\ (~AsksComputeAlarm /\ settings.result.exc = "") => MadePolicy = NoneV

\* A scalar configuration with compute_alarm=true, ordered limits and
\* active: false has been rejected with ValueError
C23_Witness ==
    /\ Normalised
    /\ AsksComputeAlarm
    /\ DeclaredType = "scalar"
    /\ ValueAlarmBlock = DictMerge([active |-> BoolV(0)], GoodLimits)
    /\ settings.result.exc = "ValueError"
    /\ settings.result.why = "requires active=true"

\* The number a configured value stands for, as twice its value (so that a
\* float with a fractional part is a whole number too)
Doubled(value) == IF value.t = "half" THEN value.v[1] ELSE 2 * value.v[1]

IsNumber(value) == value.t \in {"int", "float", "half"}

\* The valueAlarm block gives all four limits as numbers, and not in the
\* order lowAlarm <= lowWarning <= highWarning <= highAlarm
LimitsOutOfOrder ==
    LET b == ValueAlarmBlock
    IN  /\ SeqToSet(ALARM_LIMIT_FIELDS) \subseteq DOMAIN b
        /\ \A f \in SeqToSet(ALARM_LIMIT_FIELDS) : IsNumber(b[f])
        /\ \/ Doubled(b.lowAlarmLimit) > Doubled(b.lowWarningLimit)
           \/ Doubled(b.lowWarningLimit) > Doubled(b.highWarningLimit)
           \/ Doubled(b.highWarningLimit) > Doubled(b.highAlarmLimit)

\* The valueAlarm block gives some band a severity below 0 or above 3
SeverityOutside ==
    \E f \in SeqToSet(ALARM_SEVERITY_FIELDS) \cap DOMAIN ValueAlarmBlock :
        /\ IsNumber(ValueAlarmBlock[f])
        /\ \/ Doubled(ValueAlarmBlock[f]) < 0
           \/ Doubled(ValueAlarmBlock[f]) > 6

\* The valueAlarm block gives some band a severity of -1 or less, or of 4
\* or more: one that is outside 0..3 also after int() has cut its fraction
SeverityOutsideTruncated ==
    \E f \in SeqToSet(ALARM_SEVERITY_FIELDS) \cap DOMAIN ValueAlarmBlock :
        /\ IsNumber(ValueAlarmBlock[f])
        /\ \/ Doubled(ValueAlarmBlock[f]) <= -2
           \/ Doubled(ValueAlarmBlock[f]) >= 8

\* A policy was produced, and it is well formed
PolicyWellFormed ==
    (Normalised /\ settings.result.exc = "" /\ MadePolicy.kind = "dict") =>
        /\ MadePolicy.d.lowAlarmLimit <= MadePolicy.d.lowWarningLimit
        /\ MadePolicy.d.lowWarningLimit <= MadePolicy.d.highWarningLimit
        /\ MadePolicy.d.highWarningLimit <= MadePolicy.d.highAlarmLimit
        /\ \A f \in SeqToSet(ALARM_SEVERITY_FIELDS) : MadePolicy.d[f] \in 0..3

\* C24 as stated: every severity outside 0..3 is refused.
C24_Original ==
    /\ PolicyWellFormed
    /\ (Normalised /\ AsksComputeAlarm /\ (LimitsOutOfOrder \/ SeverityOutside))
           => RaisedNoPolicy

(***************************************************************************)
(* C24: an alarm policy is only ever produced with lowAlarmLimit <=        *)
(* lowWarningLimit <= highWarningLimit <= highAlarmLimit and with each of  *)
(* the four severities in 0..3.  A compute_alarm configuration whose       *)
(* limits violate the ordering is rejected with an error, and so is one    *)
(* that gives a severity which is outside 0..3 after truncation towards    *)
(* zero (-1 or less, 4 or more); a severity strictly between -1 and 0 or   *)
(* between 3 and 4 is not rejected but truncated to 0 or 3.                *)
(***************************************************************************)
C24_PolicyLimitsAndSeverities ==
    /\ PolicyWellFormed
    /\ (Normalised /\ AsksComputeAlarm /\ (LimitsOutOfOrder \/ SeverityOutsideTruncated))
           => RaisedNoPolicy

\* A configuration giving lowAlarmSeverity 3.5 has been accepted, and its
\* policy has lowAlarmSeverity 3
C24_Witness ==
    /\ Normalised
    /\ AsksComputeAlarm
    /\ DictGet(ValueAlarmBlock, "lowAlarmSeverity", PyNone) = HalfV(7)
    /\ settings.result.exc = ""
    /\ MadePolicy.kind = "dict"
    /\ MadePolicy.d.lowAlarmSeverity = 3

\* A policy was produced from the configuration
PolicyMade == Normalised /\ settings.result.exc = "" /\ MadePolicy.kind = "dict"

\* The severity the policy has for band f is the default: 1 for the two
\* warning bands, 2 for the two alarm bands
HasDefault(f) ==
    MadePolicy.d[f] = IF f \in {"lowWarningSeverity", "highWarningSeverity"} THEN 1 ELSE 2

Unspecified(f) == f \notin DOMAIN ValueAlarmBlock

\* C25 as stated: a specified severity is in the policy as it was given.
C25_Original ==
    PolicyMade =>
        \A f \in SeqToSet(ALARM_SEVERITY_FIELDS) :
            IF Unspecified(f) THEN HasDefault(f)
            ELSE 2 * MadePolicy.d[f] = Doubled(ValueAlarmBlock[f])

(***************************************************************************)
(* C25: in a produced policy a severity the configuration leaves           *)
(* unspecified is 1 for the low-warning and high-warning bands and 2 for   *)
(* the low-alarm and high-alarm bands, band by band, whatever the other    *)
(* bands specify; a severity specified as an integer is used as given,     *)
(* and one specified with a fractional part is used truncated towards 0.   *)
(***************************************************************************)
C25_SeverityDefaults ==
    PolicyMade =>
        \A f \in SeqToSet(ALARM_SEVERITY_FIELDS) :
            IF Unspecified(f) THEN HasDefault(f)
            ELSE IF ValueAlarmBlock[f].t = "half"
            THEN 2 * MadePolicy.d[f]
                     = IF ValueAlarmBlock[f].v[1] > 0 THEN ValueAlarmBlock[f].v[1] - 1
                       ELSE ValueAlarmBlock[f].v[1] + 1
            ELSE 2 * MadePolicy.d[f] = Doubled(ValueAlarmBlock[f])

\* A policy made from a configuration that specifies the low-warning
\* severity as 3 and the high-alarm severity as 0 and leaves the other two
\* out: 2, 3, 1, 0
C25_Witness ==
    /\ PolicyMade
    /\ DOMAIN ValueAlarmBlock \cap SeqToSet(ALARM_SEVERITY_FIELDS)
           = {"lowWarningSeverity", "highAlarmSeverity"}
    /\ ValueAlarmBlock.lowWarningSeverity = IntV(3)
    /\ ValueAlarmBlock.highAlarmSeverity = IntV(0)
    /\ MadePolicy.d.lowAlarmSeverity = 2
    /\ MadePolicy.d.lowWarningSeverity = 3
    /\ MadePolicy.d.highWarningSeverity = 1
    /\ MadePolicy.d.highAlarmSeverity = 0

\* A put has handed the transport at least one payload
PutSent == client.op = "put" /\ Len(client.sent) >= 1

\* The caller's payload carries an alarm: a dict with an alarm key, a Value
\* whose alarm field the caller has set
CarriesAlarm == client.value.kind \in {"dict", "Value"} /\ client.value.alarm = "set"

\* The variable is configured with compute_alarm enabled
ComputeEnabled ==
    client.variable_settings.kind = "dict" /\ client.variable_settings.d.compute_alarm

\* The payload went to the transport as the caller gave it (an ndarray
\* wrapped for the wire, nothing else touched)
PassedOnUnchanged ==
    /\ client.sent[1].value = client.value.value
    /\ client.sent[1].alarm = client.value.alarm
    /\ client.sent[1].a = client.value.a
    /\ client.sent[1].kind # client.value.kind =>
           client.value.kind = "bare" /\ client.sent[1].kind = "NTNDArray"

(***************************************************************************)
(* C26: on a write, a payload that carries an alarm reaches the transport  *)
(* unchanged, whatever the variable's type or compute_alarm setting (also  *)
(* for a name the client has no settings for); a payload is changed only   *)
(* when it carries no alarm and the variable has compute_alarm enabled,    *)
(* and then the alarm computed from its value is what is attached; a       *)
(* payload without an alarm for a variable without compute_alarm is        *)
(* passed on with no alarm added.                                          *)
(***************************************************************************)
C26_ExplicitAlarmWins ==
    PutSent =>
        /\ CarriesAlarm => PassedOnUnchanged
        /\ ~PassedOnUnchanged =>
               /\ ~CarriesAlarm
               /\ ComputeEnabled
               /\ client.sent[1].alarm = "set"
               /\ client.sent[1].value = client.value.value
               /\ client.sent[1].a
                      = ComputeAlarm(client.value.value,
                                     client.variable_settings.d.alarm_policy.d)
        /\ (~CarriesAlarm /\ ~ComputeEnabled) =>
               PassedOnUnchanged /\ client.sent[1].alarm # "set"

\* A dict with value 6 and the caller's alarm (HIGH, severity 1) was put to
\* a variable with compute_alarm enabled, for which the computed alarm
\* would be HIHI: the transport was sent the caller's alarm
C26_Witness ==
    /\ PutSent
    /\ ComputeEnabled
    /\ client.value = Payload("dict", FloatV(6), "set", CallerAlarm)
    /\ ComputeAlarm(FloatV(6), client.variable_settings.d.alarm_policy.d).message = "HIHI"
    /\ client.sent[1].a = CallerAlarm

\* The first payload handed to the transport carried an alarm
FirstCarriedAlarm == client.sent[1].alarm = "set"

\* The variable put to is one the client has settings for
KnownVariable == client.variable_settings.kind = "dict"

\* The second put carried only the value of the first
SecondIsValueOnly ==
    /\ Len(client.sent) = 2
    /\ client.sent[2].kind \in {"bare", "NTNDArray"}
    /\ client.sent[2].alarm = "none"
    /\ client.sent[2].value = client.sent[1].value

\* The caller sees what the last transport put did
OutcomeOfAttempt(i) == client.exc = IF client.fails[i] THEN "TransportError" ELSE ""

\* C27 as stated: every failed first put that carried an alarm is retried.
C27_Original ==
    PutSent =>
        /\ Len(client.sent) <= 2
        /\ (client.fails[1] /\ FirstCarriedAlarm) => SecondIsValueOnly /\ OutcomeOfAttempt(2)
        /\ (client.fails[1] /\ ~FirstCarriedAlarm) =>
               Len(client.sent) = 1 /\ client.exc = "TransportError"
        /\ ~client.fails[1] => Len(client.sent) = 1 /\ client.exc = ""

(***************************************************************************)
(* C27: put hands the transport at most two payloads.  When the first put  *)
(* fails and carried an alarm, for a variable the client has settings for  *)
(* and with a value field in the payload, exactly one second put follows,  *)
(* carrying only the value, and its outcome is the call's outcome.  When   *)
(* the first put fails and carried an alarm but the payload has no value   *)
(* field, put raises ValueError without a second put; when it fails and    *)
(* the variable has no settings, or the payload carried no alarm, the      *)
(* failure propagates with no retry.  A first put that succeeds is never   *)
(* followed by a second.                                                   *)
(***************************************************************************)
C27_RetryAtMostOnce ==
    PutSent =>
        /\ Len(client.sent) <= 2
        /\ (client.fails[1] /\ FirstCarriedAlarm /\ KnownVariable
                /\ client.sent[1].value # PyNone)
               => SecondIsValueOnly /\ OutcomeOfAttempt(2)
        /\ (client.fails[1] /\ FirstCarriedAlarm /\ KnownVariable
                /\ client.sent[1].value = PyNone)
               => Len(client.sent) = 1 /\ client.exc = "ValueError"
        /\ (client.fails[1] /\ (~FirstCarriedAlarm \/ ~KnownVariable)) =>
               Len(client.sent) = 1 /\ client.exc = "TransportError"
        /\ ~client.fails[1] => Len(client.sent) = 1 /\ client.exc = ""

\* A dict with value 3 and an alarm was put, the first transport put
\* failed and the second, carrying the bare 3, failed too: the caller sees
\* the second failure
C27_Witness ==
    /\ PutSent
    /\ client.value = Payload("dict", FloatV(3), "set", CallerAlarm)
    /\ client.fails = <<TRUE, TRUE>>
    /\ client.sent = <<client.value, Bare(FloatV(3))>>
    /\ client.exc = "TransportError"

\* This step is a call of GET /jobs/next
PollsNext == last.op = "idle" /\ last'.op = "jobs_next"

\* The job was handed out by GET /jobs/next: completed and no longer in the
\* completed queue
HandedOut(js, comp, jid) ==
    jid \in JobIds(js) /\ StatusOf(js, jid) = "completed" /\ jid \notin SeqToSet(comp)

\* The completed queue is first in, first out: a step only takes ids from
\* its head and adds ids at its tail
FifoStep(comp, comp2) ==
    \E k \in 0..Len(comp) :
        /\ k <= Len(comp2)
        /\ SubSeq(comp2, 1, k) = SubSeq(comp, Len(comp) - k + 1, Len(comp))
        /\ \A i \in (k + 1)..Len(comp2) : comp2[i] \notin SeqToSet(comp)

(***************************************************************************)
(* C28: GET /jobs/next on a non-empty completed queue returns 200 with the *)
(* job at the head of the queue, which is completed, and removes it from   *)
(* the queue, changing nothing else; on an empty queue it returns 404 and  *)
(* changes nothing.  The completed queue is first in, first out and holds  *)
(* no id twice, so jobs are handed out in completion order; a job handed   *)
(* out never enters the queue again (it is returned at most once) and      *)
(* keeps status completed in the ledger, where it stays pollable by id.    *)
(***************************************************************************)
C28_NextHandsOutHeadOnce ==
    [][/\ PollsNext =>
              /\ UNCHANGED <<var_store, jobs, queued>>
              /\ IF completed = <<>>
                 THEN last'.status = 404 /\ completed' = completed
                 ELSE /\ last'.status = 200
                      /\ last'.jid = Head(completed)
                      /\ completed' = Tail(completed)
                      /\ HandedOut(jobs', completed', last'.jid)
       /\ FifoStep(completed, completed')
       /\ Distinct(completed')
       /\ \A jid \in JobIds(jobs) :
              HandedOut(jobs, completed, jid) => HandedOut(jobs', completed', jid)
      ]_vars

\* GET /jobs/next has just handed out a job while another completed job
\* stays in the queue behind it
C28_Witness ==
    /\ last.op = "jobs_next"
    /\ last.status = 200
    /\ HandedOut(jobs, completed, last.jid)
    /\ Len(completed) = 1
    /\ JobIdx(jobs, last.jid) # JobIdx(jobs, completed[1])

\* The entry is one put_many is said to skip: an undeclared name, or a value
\* that fails coercion
BadEntry(e) == e.name \notin VarNames \/ ~CoerceForType(e.name, e.value).ok

\* The job the completion step of put_many resolves for the data
ResolvedJob(data) ==
    IF ResolveTrace(data) = NoId THEN OldestRunning(jobs, 1) ELSE ResolveTrace(data)

(***************************************************************************)
(* C29: put_many tolerates bad entries.  Whatever the data, the call does  *)
(* not raise; an entry with an undeclared name or a value that fails       *)
(* coercion leaves the store value of that name as it was; every other     *)
(* entry is written with its coerced value; and the completion step runs   *)
(* on the store so written, for the traced job or the oldest running one.  *)
(***************************************************************************)
C29_PutManyToleratesBadEntries ==
    Idle => \A data \in PutData \cup OverflowData :
        LET o == PutManyOut(var_store, jobs, completed, data, clock)
            c == CompleteJob(o.var_store, jobs, completed, ResolvedJob(data), clock)
        IN  /\ o.exc = ""
            /\ \A k \in 1..Len(data) :
                   IF BadEntry(data[k])
                   THEN data[k].name \in VarNames
                            => o.var_store[data[k].name] = var_store[data[k].name]
                   ELSE o.var_store[data[k].name]
                            = CoerceForType(data[k].name, data[k].value).value
            /\ o.jobs = c.jobs /\ o.completed = c.completed /\ o.done = c.done

\* Every job of the ledger that is queued or running has no outputs
PendingHaveNoOutputs(js) ==
    \A i \in 1..Len(js) : js[i].status \in {"queued", "running"} => js[i].outputs = EmptyDict

\* This step is a put_many that moves the i-th job of the ledger from
\* running to completed
CompletesJob(i) ==
    /\ last'.op = "put_many"
    /\ jobs[i].status = "running"
    /\ jobs'[i].status = "completed"
    /\ last'.jid = jobs[i].job_id

(***************************************************************************)
(* C30: a job whose status is queued or running has an empty outputs map,  *)
(* before and after every step; a job enters the ledger with empty         *)
(* outputs; and a step changes the outputs of a job only if it is the      *)
(* put_many that moves this job from running to completed, so the outputs  *)
(* of a completed or failed job are never modified again.                  *)
(***************************************************************************)
C30_OutputsOnlyAtCompletion ==
    [][/\ PendingHaveNoOutputs(jobs)
       /\ PendingHaveNoOutputs(jobs')
       /\ Len(jobs') >= Len(jobs)
       /\ \A i \in (Len(jobs) + 1)..Len(jobs') : jobs'[i].outputs = EmptyDict
       /\ \A i \in 1..Len(jobs) :
              /\ jobs'[i].job_id = jobs[i].job_id
              /\ jobs'[i].outputs # jobs[i].outputs => CompletesJob(i)
      ]_vars

\* put_many has just completed a job and recorded its outputs, while an
\* earlier job keeps the outputs of its own completion and a later one is
\* still pending with none
C30_Witness ==
    /\ last.op = "put_many"
    /\ last.jid # NoId
    /\ JobOf(jobs, last.jid).status = "completed"
    /\ JobOf(jobs, last.jid).outputs # EmptyDict
    /\ \E i, j \in 1..Len(jobs) :
           /\ jobs[i].job_id # last.jid
           /\ jobs[i].status \in {"completed", "failed"}
           /\ jobs[i].outputs # EmptyDict
           /\ jobs[i].outputs # JobOf(jobs, last.jid).outputs
           /\ jobs[j].status \in {"queued", "running"}

(***************************************************************************)
(* C31: in every reachable state a job's error field is set (not None) if  *)
(* and only if the job's status is failed.                                 *)
(***************************************************************************)
C31_ErrorIffFailed ==
    \A i \in 1..Len(jobs) : (jobs[i].error # NoError) <=> (jobs[i].status = "failed")

\* An eviction has just failed a job, whose error is set, while the jobs
\* completed after it are in the ledger with no error
C31_Witness ==
    /\ last.op = "put_many"
    /\ last.ids # <<>>
    /\ JobOf(jobs, last.ids[1]).status = "failed"
    /\ JobOf(jobs, last.ids[1]).error = EvictedError
    /\ \E i \in 1..Len(jobs) : jobs[i].status = "completed" /\ jobs[i].error = NoError

\* The store holds, for a variable of the snapshot, another value than the
\* snapshot
Overwritten(job) ==
    \E n \in DOMAIN job.inputs : var_store[n] # job.inputs[n].value

(***************************************************************************)
(* C32: a job's inputs snapshot is fixed at admission.  No step (a later   *)
(* submission, put, put_many, drain, completion, eviction or poll) changes *)
(* the snapshot of a job that is in the ledger: its names and the value,   *)
(* timestamp and metadata of each stay as they are, also in the steps      *)
(* that overwrite the store values of the same variables.                  *)
(***************************************************************************)
C32_InputsSnapshotFixed ==
    [][\A i \in 1..Len(jobs) :
           /\ i <= Len(jobs')
           /\ jobs'[i].job_id = jobs[i].job_id
           /\ jobs'[i].inputs = jobs[i].inputs]_vars

\* A job has gone through promotion, completion and eviction, and the
\* store no longer holds the value of its snapshot
C32_Witness ==
    \E i \in 1..Len(jobs) :
        /\ jobs[i].status = "failed"
        /\ jobs[i].inputs # EmptyDict
        /\ Overwritten(jobs[i])

\* The variables declared with one of the modes
DeclaredWithMode(modes) == {n \in VarNames : VarMeta[n].mode \in modes}

(***************************************************************************)
(* C33: when a put_many completes a job, the job's outputs have an entry   *)
(* for every variable declared with mode out or inout and for no variable  *)
(* declared with mode in, whatever the call wrote, and each entry holds    *)
(* the value the store has at the end of the call's writes, stamped with   *)
(* the time of completion.                                                 *)
(***************************************************************************)
C33_OutputsAreTheOutputList ==
    Idle => \A data \in PutData :
                LET o == PutManyOut(var_store, jobs, completed, data, clock)
                    J == JobOf(o.jobs, o.job_id)
                IN  o.done =>
                        /\ DOMAIN J.outputs = DeclaredWithMode({"out", "inout"})
                        /\ DOMAIN J.outputs \cap DeclaredWithMode({"in"}) = {}
                        /\ \A n \in DOMAIN J.outputs :
                               J.outputs[n] = [value |-> o.var_store[n], timestamp |-> clock]

\* A put_many has just completed a job; the store holds a value of the
\* input variable A that is not the one of the job's snapshot, and a value
\* of the inout variable B that is not the initial one; the outputs hold
\* B and X and not A
C33_Witness ==
    /\ last.op = "put_many"
    /\ last.jid # NoId
    /\ LET J == JobOf(jobs, last.jid)
       IN  /\ J.status = "completed"
           /\ "A" \in DOMAIN J.inputs
           /\ J.inputs["A"].value # var_store["A"]
           /\ var_store["B"] # InitStore["B"]
           /\ DOMAIN J.outputs = {"B", "X"}
           /\ J.outputs["B"].value = var_store["B"]

\* The data carries a trace id that names no job of the ledger, or a job
\* that is not running
TraceNamesNoRunningJob(data) ==
    /\ ResolveTrace(data) # NoId
    /\ \/ ResolveTrace(data) \notin JobIds(jobs)
       \/ StatusOf(jobs, ResolveTrace(data)) \in {"queued", "completed", "failed"}

\* This step is a put_many that completes no job
PutManyCompletesNone == last'.op = "put_many" /\ last'.jid = NoId

Stamps(job) == <<job.submitted_at, job.started_at, job.completed_at>>

(***************************************************************************)
(* C35: under a clock that never runs backwards, in every state and for    *)
(* every job of the ledger: started_at is set exactly when the status is   *)
(* running, completed or failed; completed_at is set exactly when the      *)
(* status is completed or failed; submitted_at <= started_at <=            *)
(* completed_at for the fields that are set; and a step that evicts a job  *)
(* (completed to failed) changes none of its three timestamps.             *)
(***************************************************************************)
C35_TimestampsFollowStatus ==
    /\ [](\A i \in 1..Len(jobs) :
            /\ jobs[i].submitted_at # NoTime
            /\ (jobs[i].started_at # NoTime)
                   <=> (jobs[i].status \in {"running", "completed", "failed"})
            /\ (jobs[i].completed_at # NoTime)
                   <=> (jobs[i].status \in {"completed", "failed"})
            /\ jobs[i].started_at # NoTime
                   => jobs[i].submitted_at <= jobs[i].started_at
            /\ jobs[i].completed_at # NoTime
                   => jobs[i].started_at <= jobs[i].completed_at)
    /\ [][\A i \in 1..Len(jobs) :
              (jobs[i].status = "completed" /\ jobs'[i].status = "failed")
                  => Stamps(jobs'[i]) = Stamps(jobs[i])]_vars

\* A put_many has just evicted a job whose three timestamps are three
\* different readings of the clock, in order
C35_Witness ==
    /\ last.op = "put_many"
    /\ \E i \in 1..Len(jobs) :
        /\ jobs[i].status = "failed"
        /\ jobs[i].error = EvictedError
        /\ jobs[i].submitted_at < jobs[i].started_at
        /\ jobs[i].started_at < jobs[i].completed_at


\* The number of jobs of the ledger whose status is queued
QueuedCount == Cardinality({i \in 1..Len(jobs) : jobs[i].status = "queued"})

(***************************************************************************)
(* C36: in every reachable state the pending queue holds at most           *)
(* input_queue_max job ids; and a submission is refused for capacity (429) *)
(* only when the number of jobs with status queued plus the batch size     *)
(* exceeds input_queue_max: running, completed and failed jobs do not      *)
(* count.                                                                  *)
(***************************************************************************)
C36_PendingQueueBounded ==
    /\ Len(queued) <= InputQueueMax
    /\ Idle => \A b \in Batches :
                   Admit(b).status = 429 => QueuedCount + Len(b) > InputQueueMax

\* A batch has just been admitted that fills the pending queue while the
\* ledger also holds a job that is no longer queued
C36_Witness ==
    /\ last.op = "enqueue"
    /\ last.status = 200
    /\ Len(queued) = InputQueueMax
    /\ Len(jobs) > InputQueueMax
    /\ \E i \in 1..Len(jobs) : jobs[i].status \in {"running", "completed", "failed"}


\* Job i of batch b carries the id of a job of the ledger
Resubmits(b, i) == b[i].job_id # NoId /\ b[i].job_id \in JobIds(jobs)

\* Every job of the ledger is found when polled by its id
PollFindsEveryJob ==
    \A i \in 1..Len(jobs) :
        /\ GetJobOut(jobs, jobs[i].job_id).status = 200
        /\ GetJobOut(jobs, jobs[i].job_id).obs = <<jobs[i]>>

(***************************************************************************)
(* C37 as stated (its clauses about one state): every job of the ledger is *)
(* found when polled by id, and a batch that carries the id of a job of    *)
(* the ledger is refused with the conflict error 409.                      *)
(***************************************************************************)
C37_Original ==
    Idle => /\ PollFindsEveryJob
            /\ \A b \in Batches :
                   (\E i \in 1..Len(b) : Resubmits(b, i)) => Admit(b).status = 409

(***************************************************************************)
(* C37, amended: no step removes a record from the ledger or changes its   *)
(* id (completion, eviction and /jobs/next included); every job of the     *)
(* ledger is found when polled by id; and a batch that carries the id of a *)
(* job of the ledger is refused as a whole, with the conflict error 409    *)
(* unless a job earlier in the batch fails validation, whose error is then *)
(* the one raised.                                                         *)
(***************************************************************************)
C37_LedgerNeverForgets ==
    /\ [](Idle => /\ PollFindsEveryJob
                  /\ \A b \in Batches : \A i \in 1..Len(b) :
                         Resubmits(b, i) =>
                             /\ NothingAdmitted(Admit(b))
                             /\ Admit(b).status \in ValidationErrors
                             /\ (\A k \in 1..(i - 1) : ~InvalidJob(b, k))
                                    => Admit(b).status = 409)
    /\ [][\A i \in 1..Len(jobs) :
              i <= Len(jobs') /\ jobs'[i].job_id = jobs[i].job_id]_vars

\* The id of a job that was evicted and is no longer in the completed queue
\* has just been submitted again and refused with 409
C37_Witness ==
    /\ last.op = "enqueue"
    /\ last.status = 409
    /\ Len(jobs) = MaxJobs
    /\ ClientId(1) \notin SeqToSet(completed)
    /\ \E i \in 1..Len(jobs) :
        /\ jobs[i].job_id = ClientId(1)
        /\ jobs[i].status = "failed"
        /\ jobs[i].error = EvictedError


\* This step is a get_many of the given kind ("tick" or "consume")
Drains(kind) == last'.op = "get_many" /\ last'.kind = kind

(***************************************************************************)
(* C38: a clock-tick get_many that promotes job J leaves every variable    *)
(* that is not among J's inputs at its previous value; a clock-tick        *)
(* get_many on an empty pending queue leaves the whole store unchanged;    *)
(* and a consume_jobs=true get_many leaves the whole store unchanged,      *)
(* however many jobs it promotes.                                          *)
(***************************************************************************)
C38_DrainsOnlyRestoreInputs ==
    [][/\ (Drains("tick") /\ queued # <<>>) =>
              \A n \in VarNames \ DOMAIN JobOf(jobs, Head(queued)).inputs :
                  var_store'[n] = var_store[n]
       /\ (Drains("tick") /\ queued = <<>>) => var_store' = var_store
       /\ Drains("consume") => var_store' = var_store]_vars

\* A clock tick has just promoted a job whose inputs do not hold B, and B
\* still has the value that a later-submitted, still queued job gave it
C38_Witness ==
    /\ last.op = "get_many"
    /\ last.kind = "tick"
    /\ Len(last.ids) = 1
    /\ "B" \notin DOMAIN JobOf(jobs, last.ids[1]).inputs
    /\ var_store["B"] # InitStore["B"]
    /\ \E k \in 1..Len(jobs) :
           /\ k > JobIdx(jobs, last.ids[1])
           /\ jobs[k].status = "queued"
           /\ "B" \in DOMAIN jobs[k].inputs
           /\ jobs[k].inputs["B"].value = var_store["B"]


\* The ids a job can carry
AllIds == {ClientId(1)} \cup {Uuid(k) : k \in 1..MaxJobs}

\* The ledger holds a job of this id in one of these statuses
KnownAs(id, statuses) == id \in JobIds(jobs) /\ StatusOf(jobs, id) \in statuses

(***************************************************************************)
(* C39: under a fair clock-driven consumer that alternates a clock-tick    *)
(* get_many with an untagged put_many, every admitted job eventually       *)
(* leaves queued and eventually is completed or failed, whatever is        *)
(* submitted meanwhile; and at most one job is running at any time.        *)
(***************************************************************************)
C39_FairConsumerServesEveryJob ==
    /\ \A id \in AllIds :
           KnownAs(id, {"queued"}) ~> KnownAs(id, {"running", "completed", "failed"})
    /\ \A id \in AllIds :
           KnownAs(id, {"queued", "running"}) ~> KnownAs(id, {"completed", "failed"})
    /\ [](Cardinality(RunningIds) <= 1)

\* The consumer's write-back has just completed the last job of a full
\* ledger: every job that was admitted is completed or failed
C39_Witness ==
    /\ last.op = "put_many"
    /\ last.jid # NoId
    /\ At("c1", "idle")
    /\ Len(jobs) = MaxJobs
    /\ \A i \in 1..Len(jobs) : jobs[i].status \in {"completed", "failed"}
    /\ \E i \in 1..Len(jobs) : jobs[i].status = "failed"


\* Discovery, had it been called in the current state
Discovered(fails) == DiscoverPlugins(registry, fails)

(***************************************************************************)
(* C40: in a PluginRegistry, whatever the order of register, unregister,   *)
(* discover_plugins and get calls: a name registered by hand and not       *)
(* unregistered since maps to the class of its latest register call;       *)
(* discovery keeps every name that is present with its class and adds      *)
(* only absent names; once discovery has run, a further discovery changes  *)
(* nothing; and get of a name that is absent after discovery raises        *)
(* KeyError, while get of a present name returns its class.                *)
(***************************************************************************)
C40_ManualRegistrationWins ==
    /\ \A n \in DOMAIN registry.manual :
           n \in DOMAIN registry.plugins /\ registry.plugins[n] = registry.manual[n]
    /\ Idle => \A fails \in BOOLEAN :
           /\ \A n \in DOMAIN registry.plugins :
                  /\ n \in DOMAIN Discovered(fails).plugins
                  /\ Discovered(fails).plugins[n] = registry.plugins[n]
           /\ Discovered(fails).loaded
           /\ Discovered(fails).manual = registry.manual
           /\ registry.loaded => Discovered(fails) = registry
           /\ \A name \in {"a", "b", "c"} :
                  LET o == GetOut(registry, name, fails)
                  IN  /\ o.registry = Discovered(fails)
                      /\ IF name \in DOMAIN Discovered(fails).plugins
                         THEN o.exc = "" /\ o.value = Discovered(fails).plugins[name]
                         ELSE o.exc = "KeyError"

\* A get has just returned the class registered by hand for a, a name that
\* two entry points offer too, in a registry whose discovery has run; b,
\* whose entry point does not load, is absent
C40_Witness ==
    /\ last.op = "get"
    /\ last.ids = <<"a">>
    /\ registry.loaded
    /\ "a" \in DOMAIN registry.manual
    /\ last.kind = registry.manual["a"]
    /\ last.kind \notin {EntryPoints[i].class : i \in 1..Len(EntryPoints)}
    /\ "b" \notin DOMAIN registry.plugins

====
